---- MODULE Spec2Model ----
(***************************************************************************)
(* Model of VCV's Object runtime: the FlatMap open-addressing hash table,  *)
(* the Object handle built on three FlatMaps (src/src/Object.cpp, second   *)
(* revision with packed strong/weak counts) and the reference-counting     *)
(* protocol under concurrent callers.                                      *)
(***************************************************************************)
EXTENDS Integers, Naturals, Sequences, FiniteSets, TLC

(***************************************************************************)
(* Bounds of the model.                                                    *)
(***************************************************************************)
\* number of distinct keys offered to the FlatMap
MaxKeys == 5
\* number of proxy objects and of proxy types
MaxProxies == 2
MaxTypes == 2
\* cap on the weak references of the Weak class that are held at a time
MaxWeakHandles == 2
\* largest value stored in the FlatMap (0 is a NULL value)
MaxVal == 1
\* number of class descriptors
MaxClasses == 3
\* largest class data pointer (0 is a NULL data pointer)
MaxData == 1
\* number of dispatcher functions and of method functions
MaxDispatchers == 2
MaxMethods == 3
\* cap on the Object_method_push calls of one run
MaxMethodPushes == 4
\* cap on the Object_method_push calls on an Object that is then torn down
MaxTeardownMethods == 1
\* cap on the Object_method_push calls on an Object whose teardown is observed
MaxObservedPushes == 2
\* cap on the classes attached to such an Object
MaxObservedClasses == 2
\* cap on the strong references obtained (Object_ref, Object_weak_lock) and
\* on the weak references obtained (Object_weak_ref) in one run
MaxRefs == 2
MaxWeakRefs == 1
\* number of threads that share the Object, and of classes it then has
NumThreads == 2
MaxSharedClasses == 1
\* cap on the number of keys a FlatMap holds when only its fields are followed
MaxGrowKeys == 16385

(***************************************************************************)
(* Program constants.                                                      *)
(***************************************************************************)
\* SizeT = uint16_t: capacity, mask and size are 16-bit fields
SizeTMod == 65536
\* low 16 bits of 0x9E3779B97F4A7C15; the hash is masked with a 16-bit mask,
\* so only these bits of the 64-bit product are ever observed
GoldenLow16 == 31765
\* capacity of a cleared / constructed map
StartCapacity == 4

\* FlatMap keys are non-zero addresses.  The ones offered here (3, 6, 16, 19,
\* 22, 32, ...) hash to the last two slots and to slot 0 at every capacity up
\* to 16, so that probe clusters of different home slots interleave and wrap
KeyOf(i) == 16 * ((i - 1) \div 3) + <<3, 6, 16>>[((i - 1) % 3) + 1]
Keys == {KeyOf(i) : i \in 1..MaxKeys}
Values == 0..MaxVal

\* the NULL pointer, as a stored value or a returned method / data pointer
NULL == 0
\* the result of find() when the key is absent: find() returns a pointer to
\* the value, so its NULL result is distinct from a stored NULL value
NotFound == -1

\* class descriptors are 8-aligned static records
Classes == {8 * i : i \in 1..MaxClasses}
Datas == 0..MaxData
\* dispatchers and methods are distinct function addresses
Dispatchers == {4 * i : i \in 1..MaxDispatchers}
Methods == {4 * i + 1 : i \in 1..MaxMethods}

VARIABLES
    fm,          \* the FlatMap under test: [table, capacity, mask, size]
    variant,     \* which erase() the map uses: "rehash" or "shift"
    dict,        \* reference dictionary: Keys -> Values \cup {NotFound}
    fmFound,     \* result of the last find(): NotFound or the value
    fmShifted,   \* an erase() has moved another entry to a new slot
    fmCleared,   \* capacity at the last clear(), 0 once an insert followed it
    fields,      \* capacity, mask and size of a FlatMap that holds many keys
    self,        \* the Object: [classes, datas, methods, supermethods, refs]
    deleted,     \* how many times `delete self` has run
    td,          \* position of the teardown inside Object_unref
    calls,       \* finalize / free callbacks invoked so far, in order
    nullCallbacks, \* <<kind, class>> callback pointers read as NULL so far
    held,        \* references the callers hold (and the most strong ones held)
    teardowns,   \* how many Object_unref calls have started a teardown
    repushed,    \* the class last pushed again with another data pointer
    attachOrder, \* the classes in the order of their first Object_class_push
    firstData,   \* per class: data pointer of its first Object_class_push
    pushed,      \* per dispatcher: methods pushed so far, in order
    pc,          \* per thread: the function it is in and where
    loaded,      \* per thread: the local `refs` of the function it is in
    holds,       \* per thread: the strong / weak references it holds
    lockResult,  \* per thread: what its last Object_weak_lock returned
    weakUsed,    \* some caller has taken a weak reference
    uaf,         \* the shell was accessed after `delete self`
    lastCall,    \* the last call made with a NULL or a dead handle
    proxies,     \* the ObjectProxies data: [boundProxy, proxies, proxiesByType]
    pxLog,       \* proxies registered with a destructor, destructors called
    weakRef      \* the WeakRef record of the Weak class

(***************************************************************************)
(* Bit operations on naturals.                                             *)
(***************************************************************************)
RECURSIVE BitAnd(_, _)
BitAnd(a, b) ==
    IF a = 0 \/ b = 0 THEN 0
    ELSE (a % 2) * (b % 2) + 2 * BitAnd(a \div 2, b \div 2)

(***************************************************************************)
(* FlatMap<K, V, SizeT = uint16_t>                                         *)
(***************************************************************************)
EmptyEntry == [key |-> 0, value |-> 0]

NewTable(cap) == [i \in 0..(cap - 1) |-> EmptyEntry]

\* variant: the branch for capacity 4 resets the size and leaves the slots
FlatMap_clear_stale(m) ==
    IF m.capacity = StartCapacity
    THEN [m EXCEPT !.size = 0]
    ELSE [table |-> NewTable(StartCapacity), capacity |-> StartCapacity,
          mask |-> (StartCapacity - 1) % SizeTMod, size |-> 0]

\* FlatMap::FlatMap() / FlatMap::clear(): both branches of clear() leave
\* capacity 4, mask 3, size 0 and a zeroed table
FlatMap_clear(m) ==
    IF m.capacity = StartCapacity
    THEN [m EXCEPT !.table = [i \in 0..(m.capacity - 1) |-> EmptyEntry],
                   !.size = 0]
    ELSE [table |-> NewTable(StartCapacity), capacity |-> StartCapacity,
          mask |-> (StartCapacity - 1) % SizeTMod, size |-> 0]

FlatMap_new ==
    FlatMap_clear([table |-> << >>, capacity |-> 0, mask |-> 0, size |-> 0])

\* (uint64_t(key) * 0x9E3779B97F4A7C15ULL) & mask
hash(m, key) == BitAnd(((key % SizeTMod) * GoldenLow16) % SizeTMod, m.mask)

\* the probe loop of insert(): first slot that is empty or holds key
RECURSIVE ProbeInsert(_, _, _)
ProbeInsert(m, key, i) ==
    IF m.table[i].key # 0 /\ m.table[i].key # key
    THEN ProbeInsert(m, key, BitAnd(i + 1, m.mask))
    ELSE i

\* the probe loop of find() and erase(): slot of key, or NotFound at an empty slot
RECURSIVE ProbeFind(_, _, _)
ProbeFind(m, key, i) ==
    IF m.table[i].key = 0 THEN NotFound
    ELSE IF m.table[i].key = key THEN i
    ELSE ProbeFind(m, key, BitAnd(i + 1, m.mask))

RECURSIVE FlatMap_insert(_, _, _)
RECURSIVE FlatMap_rehash(_, _)
RECURSIVE RehashLoop(_, _, _, _)

\* the for loop of rehash(): re-insert every old entry with a non-zero key
RehashLoop(m, oldTable, oldCapacity, i) ==
    IF i >= oldCapacity THEN m
    ELSE RehashLoop(IF oldTable[i].key # 0
                    THEN FlatMap_insert(m, oldTable[i].key, oldTable[i].value)
                    ELSE m,
                    oldTable, oldCapacity, i + 1)

\* variant: rehash() does not reset size before it puts the entries back
FlatMap_rehash_keepsize(m, newCapacity) ==
    RehashLoop([table |-> NewTable(newCapacity), capacity |-> newCapacity,
                mask |-> (newCapacity - 1) % SizeTMod, size |-> m.size],
               m.table, m.capacity, 0)

FlatMap_rehash(m, newCapacity) ==
    RehashLoop([table |-> NewTable(newCapacity), capacity |-> newCapacity,
                mask |-> (newCapacity - 1) % SizeTMod, size |-> 0],
               m.table, m.capacity, 0)

FlatMap_insert(m, key, value) ==
    LET m1 == IF m.size * 2 >= m.capacity
              THEN FlatMap_rehash(m, (m.capacity * 2) % SizeTMod)
              ELSE m
        i == ProbeInsert(m1, key, hash(m1, key))
    IN [m1 EXCEPT !.size = IF m1.table[i].key = 0
                            THEN (m1.size + 1) % SizeTMod ELSE m1.size,
                  !.table[i] = [key |-> key, value |-> value]]

\* find(): the slot whose value the returned pointer addresses, or NotFound
FlatMap_find(m, key) == ProbeFind(m, key, hash(m, key))

\* *find(key), for callers that dereference the result
FlatMap_get(m, key) ==
    LET i == FlatMap_find(m, key)
    IN IF i = NotFound THEN NotFound ELSE m.table[i].value

FlatMap_empty(m) == m.size = 0

\* the three SizeT fields of a map
FlatMap_fields(m) ==
    [capacity |-> m.capacity, mask |-> m.mask, size |-> m.size]

\* insert() of a key that is not in the map, on the fields alone: the growth
\* test, the assignments of rehash() (which puts the old entries back, so
\* that size returns to its old value) and size++
FlatMap_insert_fields(f) ==
    LET newCapacity == (f.capacity * 2) % SizeTMod
        f1 == IF f.size * 2 >= f.capacity
              THEN [capacity |-> newCapacity,
                    mask |-> (newCapacity - 1) % SizeTMod,
                    size |-> f.size]
              ELSE f
    IN [f1 EXCEPT !.size = (@ + 1) % SizeTMod]

\* erase() of a key that is in the map, on the fields alone: size--
FlatMap_erase_fields(f) == [f EXCEPT !.size = (@ - 1) % SizeTMod]

\* erase() of the first revision: zero the slot and rehash at the same capacity
FlatMap_erase_rehash(m, key) ==
    LET i == FlatMap_find(m, key)
    IN IF i = NotFound THEN m
       ELSE FlatMap_rehash([m EXCEPT !.table[i] = EmptyEntry,
                                     !.size = (m.size - 1) % SizeTMod],
                           m.capacity)

\* variant: every later entry of the cluster is moved into the gap, whatever
\* its home slot
RECURSIVE ShiftLoop_anyhome(_, _, _)
ShiftLoop_anyhome(m, i, j) ==
    IF m.table[j].key = 0
    THEN [m EXCEPT !.table[i] = EmptyEntry]
    ELSE ShiftLoop_anyhome([m EXCEPT !.table[i] = m.table[j]], j,
                           BitAnd(j + 1, m.mask))

\* the inner for loop of the backward-shift erase(): i is the gap, j the scan
RECURSIVE ShiftLoop(_, _, _)
ShiftLoop(m, i, j) ==
    IF m.table[j].key = 0
    THEN [m EXCEPT !.table[i] = EmptyEntry]
    ELSE LET home == hash(m, m.table[j].key)
         IN IF BitAnd((i - home) % SizeTMod, m.mask)
                   < BitAnd((j - home) % SizeTMod, m.mask)
            THEN ShiftLoop([m EXCEPT !.table[i] = m.table[j]], j,
                           BitAnd(j + 1, m.mask))
            ELSE ShiftLoop(m, i, BitAnd(j + 1, m.mask))

\* a deletion that zeroes the slot and leaves the rest of the cluster in place
FlatMap_erase_noshift(m, key) ==
    LET i == FlatMap_find(m, key)
    IN IF i = NotFound THEN m
       ELSE [m EXCEPT !.size = (m.size - 1) % SizeTMod,
                      !.table[i] = EmptyEntry]

\* erase() of the later revisions: backward-shift deletion
FlatMap_erase_shift(m, key) ==
    LET i == FlatMap_find(m, key)
    IN IF i = NotFound THEN m
       ELSE ShiftLoop([m EXCEPT !.size = (m.size - 1) % SizeTMod], i,
                      BitAnd(i + 1, m.mask))

FlatMap_erase(m, key, v) ==
    IF v = "rehash" THEN FlatMap_erase_rehash(m, key)
    ELSE FlatMap_erase_shift(m, key)

(***************************************************************************)
(* struct Object and the Object_* functions (src/src/Object.cpp, the       *)
(* revision with strong and weak counts).  refs is one atomic 64-bit word; *)
(* its low 32 bits (strong) and high 32 bits (weak) are kept as two fields *)
(* that every atomic operation reads or writes together.                   *)
(***************************************************************************)
Object_create ==
    [classes |-> << >>, datas |-> FlatMap_new, methods |-> FlatMap_new,
     supermethods |-> FlatMap_new, refs |-> [strong |-> 1, weak |-> 0]]

\* refs.fetch_add(1) / refs.fetch_sub(1) on the 64-bit word: a carry out of
\* the low half goes into the high half, and so does a borrow.  A negative
\* field v stands for the 32-bit pattern 2^32 + v (-1 is 0xFFFFFFFF)
fetch_add_strong(refs) ==
    [strong |-> refs.strong + 1,
     weak |-> IF refs.strong = -1 THEN refs.weak + 1 ELSE refs.weak]
fetch_sub_strong(refs) ==
    [strong |-> refs.strong - 1,
     weak |-> IF refs.strong = 0 THEN refs.weak - 1 ELSE refs.weak]
\* variant: the weak unit is added without the shift by 32
fetch_add_weak_unshifted(refs) == fetch_add_strong(refs)

\* refs.fetch_add(1 << 32) / refs.fetch_sub(1 << 32): a carry or borrow of
\* the high half leaves the word
fetch_add_weak(refs) == [refs EXCEPT !.weak = @ + 1]
fetch_sub_weak(refs) == [refs EXCEPT !.weak = @ - 1]

\* (refs & 0xFFFFFFFF) == 0 and (refs >> 32) == 0
strong_is_zero(refs) == refs.strong = 0
weak_is_zero(refs) == refs.weak = 0

\* variant: every decrement is taken for the last one
released_any_strong(old) == old.strong >= 1

\* line 253: the value fetch_sub returned shows the strong count left 1 for 0
released_last_strong(old) == old.strong = 1

\* variant: the weak half of the word is not looked at
released_last_ref_ignoring_weak(old) == old.strong = 0

\* line 305: the value fetch_sub returned shows the weak count left 1 for 0
\* with no strong reference
released_last_ref(old) == old.weak = 1 /\ old.strong = 0

\* variant: the exchange does not compare
compare_exchange_blind(refs, expected) == TRUE

\* refs.compare_exchange_weak(expected, expected + 1) succeeds
compare_exchange_succeeds(refs, expected) == refs = expected

Object_refs_get(o) == o.refs.strong
Object_weak_refs_get(o) == o.refs.weak

\* variant: no increment
Object_ref_noop(o) == o

\* variant: no test of the strong count
Object_ref_unguarded(o) == [o EXCEPT !.refs = fetch_add_strong(@)]

\* Object_ref as one uninterrupted call
Object_ref(o) ==
    IF strong_is_zero(o.refs) THEN o
    ELSE [o EXCEPT !.refs = fetch_add_strong(@)]

Object_weak_ref(o) == [o EXCEPT !.refs = fetch_add_weak(@)]

\* Object_weak_unref as one uninterrupted call: the Object after the
\* decrement, and whether the call goes on to `delete self`
Object_weak_unref(o) ==
    IF weak_is_zero(o.refs) THEN o
    ELSE [o EXCEPT !.refs = fetch_sub_weak(@)]

Object_weak_unref_deletes(o) ==
    ~weak_is_zero(o.refs) /\ released_last_ref(o.refs)

\* Object_weak_lock as one uninterrupted call
Object_weak_lock_result(o) ==
    ~strong_is_zero(o.refs) /\ compare_exchange_succeeds(o.refs, o.refs)

Object_weak_lock(o) ==
    IF Object_weak_lock_result(o)
    THEN [o EXCEPT !.refs = fetch_add_strong(@)] ELSE o

\* variant: no early return for an attached class
Object_class_push_always(o, cls, data) ==
    [o EXCEPT !.datas = FlatMap_insert(@, cls, data),
              !.classes = Append(@, cls)]

\* variant: a NULL data pointer is not stored, the class is still listed
Object_class_push_skipnull(o, cls, data) ==
    IF FlatMap_find(o.datas, cls) # NotFound THEN o
    ELSE [o EXCEPT !.datas = IF data = NULL THEN @
                             ELSE FlatMap_insert(@, cls, data),
                   !.classes = Append(@, cls)]

Object_class_push(o, cls, data) ==
    IF FlatMap_find(o.datas, cls) # NotFound THEN o
    ELSE [o EXCEPT !.datas = FlatMap_insert(@, cls, data),
                   !.classes = Append(@, cls)]

Object_class_check(o, cls) == FlatMap_find(o.datas, cls) # NotFound

\* the pointer Object_class_check stores in *dataOut when it returns true
Object_class_data(o, cls) == FlatMap_get(o.datas, cls)

\* assert(dispatcher); assert(method); assert(method != supermethod)
Object_method_push_asserts(o, dispatcher, method) ==
    /\ dispatcher # NULL
    /\ method # NULL
    /\ FlatMap_find(o.methods, dispatcher) # NotFound
           => method # FlatMap_get(o.methods, dispatcher)

\* variant: the overridden method is not recorded
Object_method_push_nosuper(o, dispatcher, method) ==
    [o EXCEPT !.methods = FlatMap_insert(@, dispatcher, method)]

\* variant: the supermethod is recorded, the dispatcher keeps its old method
Object_method_push_keephead(o, dispatcher, method) ==
    LET existing == FlatMap_find(o.methods, dispatcher)
    IN IF existing # NotFound
       THEN LET supermethod == o.methods.table[existing].value
            IN [o EXCEPT
                 !.supermethods =
                     IF FlatMap_find(@, method) = NotFound
                     THEN FlatMap_insert(@, method, supermethod) ELSE @]
       ELSE [o EXCEPT !.methods = FlatMap_insert(@, dispatcher, method)]

\* variant: the supermethod of the method is recorded on every override
Object_method_push_resuper(o, dispatcher, method) ==
    LET existing == FlatMap_find(o.methods, dispatcher)
    IN IF existing # NotFound
       THEN LET supermethod == o.methods.table[existing].value
            IN [o EXCEPT
                 !.supermethods = FlatMap_insert(@, method, supermethod),
                 !.methods.table[existing].value = method]
       ELSE [o EXCEPT !.methods = FlatMap_insert(@, dispatcher, method)]

\* variant: the first method of a dispatcher gets a NULL supermethod entry
Object_method_push_rootsuper(o, dispatcher, method) ==
    LET existing == FlatMap_find(o.methods, dispatcher)
    IN IF existing # NotFound
       THEN LET supermethod == o.methods.table[existing].value
            IN [o EXCEPT
                 !.supermethods =
                     IF FlatMap_find(@, method) = NotFound
                     THEN FlatMap_insert(@, method, supermethod) ELSE @,
                 !.methods.table[existing].value = method]
       ELSE [o EXCEPT !.methods = FlatMap_insert(@, dispatcher, method),
                      !.supermethods = FlatMap_insert(@, method, NULL)]

Object_method_push(o, dispatcher, method) ==
    LET existing == FlatMap_find(o.methods, dispatcher)
    IN IF existing # NotFound
       THEN LET supermethod == o.methods.table[existing].value
            IN [o EXCEPT
                 !.supermethods =
                     IF FlatMap_find(@, method) = NotFound
                     THEN FlatMap_insert(@, method, supermethod) ELSE @,
                 !.methods.table[existing].value = method]
       ELSE [o EXCEPT !.methods = FlatMap_insert(@, dispatcher, method)]

Object_method_get(o, dispatcher) ==
    IF FlatMap_find(o.methods, dispatcher) = NotFound THEN NULL
    ELSE FlatMap_get(o.methods, dispatcher)

Object_supermethod_get(o, method) ==
    IF FlatMap_find(o.supermethods, method) = NotFound THEN NULL
    ELSE FlatMap_get(o.supermethods, method)

(***************************************************************************)
(* The NULL checks.  Every Object_* function starts with `if (!self)` and  *)
(* returns at once; a return value is kept with its C type.                *)
(***************************************************************************)
ObjectFunctions ==
    {"Object_ref", "Object_unref", "Object_refs_get", "Object_weak_ref",
     "Object_weak_unref", "Object_weak_refs_get", "Object_weak_lock",
     "Object_class_push", "Object_class_check", "Object_method_push",
     "Object_method_get", "Object_supermethod_get", "Object_inspect"}

Returned(type, value) == [type |-> type, value |-> value]

\* variant: Object_weak_lock without its NULL check reaches the load of
\* self->refs
Object_null_return_unchecked_lock(fn) ==
    CASE fn \in {"Object_ref", "Object_unref", "Object_weak_ref",
                 "Object_weak_unref", "Object_class_push",
                 "Object_method_push"} -> Returned("void", 0)
      [] fn \in {"Object_refs_get", "Object_weak_refs_get"} ->
             Returned("uint32_t", 0)
      [] fn = "Object_class_check" -> Returned("bool", FALSE)
      [] fn = "Object_weak_lock" -> Returned("fault", 0)
      [] OTHER -> Returned("pointer", NULL)

\* what fn returns when it is called with self = NULL
Object_null_return(fn) ==
    CASE fn = "Object_ref" -> Returned("void", 0)
      [] fn = "Object_unref" -> Returned("void", 0)
      [] fn = "Object_refs_get" -> Returned("uint32_t", 0)
      [] fn = "Object_weak_ref" -> Returned("void", 0)
      [] fn = "Object_weak_unref" -> Returned("void", 0)
      [] fn = "Object_weak_refs_get" -> Returned("uint32_t", 0)
      [] fn = "Object_weak_lock" -> Returned("bool", FALSE)
      [] fn = "Object_class_push" -> Returned("void", 0)
      [] fn = "Object_class_check" -> Returned("bool", FALSE)
      [] fn = "Object_method_push" -> Returned("void", 0)
      [] fn = "Object_method_get" -> Returned("pointer", NULL)
      [] fn = "Object_supermethod_get" -> Returned("pointer", NULL)
      [] fn = "Object_inspect" -> Returned("pointer", NULL)

\* no call with a NULL or dead handle has been made
NoCall == [fn |-> "none", null |-> FALSE, ret |-> Returned("void", 0)]

(***************************************************************************)
(* Object_unref, cut where it calls out to the classes' callbacks.         *)
(*   td.phase = "none"      no teardown is running                         *)
(*   td.phase = "finalize"  in the finalize loop, td.it is the position of *)
(*                          the reverse iterator (classes[td.it] is next)  *)
(*   td.phase = "free"      in the free loop, or about to clear the maps   *)
(***************************************************************************)
NoTeardown == [phase |-> "none", it |-> 0]

\* variant: the maps are cleared before the callbacks run
Object_unref_enter_clearing(o) ==
    IF strong_is_zero(o.refs) THEN o
    ELSE LET o1 == [o EXCEPT !.refs = fetch_sub_strong(@)]
         IN IF ~released_last_strong(o.refs) THEN o1
            ELSE [Object_weak_ref(o1) EXCEPT
                    !.datas = FlatMap_clear(@), !.methods = FlatMap_clear(@),
                    !.supermethods = FlatMap_clear(@)]

\* lines 248-256: the guarded decrement and, when it took the strong count
\* from 1 to 0, the protecting Object_weak_ref
Object_unref_enter(o) ==
    IF strong_is_zero(o.refs) THEN o
    ELSE LET o1 == [o EXCEPT !.refs = fetch_sub_strong(@)]
         IN IF ~released_last_strong(o.refs) THEN o1 ELSE Object_weak_ref(o1)

Object_unref_tears_down(o) ==
    ~strong_is_zero(o.refs) /\ released_last_strong(o.refs)

\* where the teardown stands after the decrement
Object_unref_begin(o) ==
    IF Len(o.classes) = 0 THEN [phase |-> "free", it |-> 0]
    ELSE [phase |-> "finalize", it |-> Len(o.classes)]

\* variant: the finalize loop walks the classes front to back
Object_unref_finalize_call_forward(o, t, isNull) ==
    IF isNull THEN << >>
    ELSE << <<"finalize", o.classes[Len(o.classes) - t.it + 1]>> >>

\* one iteration of the finalize loop: the callback it invokes unless the
\* class's finalize pointer is NULL
Object_unref_finalize_call(o, t, isNull) ==
    IF isNull THEN << >> ELSE << <<"finalize", o.classes[t.it]>> >>

Object_unref_finalize_next(t) ==
    IF t.it = 1 THEN [phase |-> "free", it |-> 0]
    ELSE [t EXCEPT !.it = @ - 1]

\* one iteration of the free loop: the callback it invokes unless the class's
\* free pointer is NULL, then pop_back()
Object_unref_free_call(o, isNull) ==
    IF isNull THEN << >> ELSE << <<"free", o.classes[Len(o.classes)]>> >>

\* variant: the free loop drops the first class of the list, not the last
Object_unref_free_pop_front(o) ==
    [o EXCEPT !.classes = SubSeq(@, 2, Len(@))]

Object_unref_free_pop(o) ==
    [o EXCEPT !.classes = SubSeq(@, 1, Len(@) - 1)]

\* variant: supermethods is left as it is
Object_unref_clear_two(o) ==
    [o EXCEPT !.datas = FlatMap_clear(@), !.methods = FlatMap_clear(@)]

\* lines 271-274: clear the three maps
Object_unref_clear(o) ==
    [o EXCEPT !.datas = FlatMap_clear(@), !.methods = FlatMap_clear(@),
              !.supermethods = FlatMap_clear(@)]

(***************************************************************************)
(* struct ObjectProxies and its methods (src/src/ObjectProxies.cpp, the    *)
(* revision with a bound proxy), ObjectProxy::of and Ref                   *)
(* (src/Object/ObjectProxy.hpp).  A proxy and a type are non-zero          *)
(* addresses; the destructor field tells whether the pointer is non-NULL.  *)
(***************************************************************************)
Proxies == 1..MaxProxies
Types == 1..MaxTypes

\* the class descriptor ObjectProxies_class and the data pointer of the class
ObjectProxies_class == 8
ObjectProxies_data == 1

ProxyData(proxy, type, destructor) ==
    [proxy |-> proxy, type |-> type, destructor |-> destructor]

NoProxies ==
    [boundProxy |-> ProxyData(NULL, NULL, FALSE),
     proxies |-> << >>,
     proxiesByType |-> [t \in Types |-> NULL]]

NoDestructions == [registered |-> {}, destructed |-> << >>]

\* DEFINE_METHOD: the method body runs only if the Object has the class
ObjectProxies_has(o) == Object_class_check(o, ObjectProxies_class)

\* ObjectProxies_specialize: returns if the class is there, else pushes it
\* with new data
ObjectProxies_specialize(o) ==
    IF ObjectProxies_has(o) THEN o
    ELSE Object_class_push(o, ObjectProxies_class, ObjectProxies_data)

ObjectProxies_add(data, proxy, type, destructor) ==
    IF proxy = NULL THEN data
    ELSE [data EXCEPT
            !.proxies = Append(@, ProxyData(proxy, type, destructor)),
            !.proxiesByType = IF type # NULL
                              THEN [@ EXCEPT ![type] = proxy] ELSE @]

\* variant: the proxy is dropped from proxiesByType only
ObjectProxies_remove_bytype(data, proxy) ==
    [data EXCEPT
       !.proxiesByType = [t \in DOMAIN @ |->
                             IF @[t] = proxy THEN NULL ELSE @[t]]]

ObjectProxies_remove(data, proxy) ==
    LET Other(e) == e.proxy # proxy
    IN [data EXCEPT
          !.proxies = SelectSeq(@, Other),
          !.proxiesByType = [t \in DOMAIN @ |->
                                IF @[t] = proxy THEN NULL ELSE @[t]]]

ObjectProxies_get(data, type) == data.proxiesByType[type]

ObjectProxies_bound_get(data) == data.boundProxy.proxy

\* the free block, one iteration of its loop: the entry taken from the back
\* and the data after pop_back()
ObjectProxies_free_back(data) == data.proxies[Len(data.proxies)]

ObjectProxies_free_pop(data) ==
    [data EXCEPT !.proxies = SubSeq(@, 1, Len(@) - 1)]

ObjectProxies_bound_set(data, proxy, type, destructor) ==
    [data EXCEPT !.boundProxy = ProxyData(proxy, type, destructor)]

\* the address of the proxy an Object is bound to, apart from every proxy
\* that new returns
BoundProxy == MaxProxies + 1

\* of(): boundProxy && boundType == &typeid(ObjectProxy) && dynamic_cast<T*>.
\* The type of a bound C++ proxy is held as the class of the proxy (the cast
\* succeeds for that class); NULL is the type of a proxy of another
\* environment
BoundCasts(data, type) ==
    /\ ObjectProxies_bound_get(data) # NULL
    /\ data.boundProxy.type = type

\* variant: of() takes a reference for the proxy it creates
ObjectProxy_of_owning(o, data, type, fresh) ==
    IF ObjectProxies_has(o) /\ BoundCasts(data, type)
    THEN [object |-> o, data |-> data,
          proxy |-> ObjectProxies_bound_get(data)]
    ELSE IF ObjectProxies_has(o) /\ ObjectProxies_get(data, type) # NULL
    THEN [object |-> o, data |-> data,
          proxy |-> ObjectProxies_get(data, type)]
    ELSE [object |-> Object_ref(ObjectProxies_specialize(o)),
          data |-> ObjectProxies_add(data, fresh, type, TRUE),
          proxy |-> fresh]

\* ObjectProxy::of<T>(self): the bound proxy, else the cached proxy of the
\* type, else a new T(self) (whose constructor specializes the Object)
\* registered with ObjectProxy::destructor.  fresh is what new returns
ObjectProxy_of(o, data, type, fresh) ==
    IF ObjectProxies_has(o) /\ BoundCasts(data, type)
    THEN [object |-> o, data |-> data,
          proxy |-> ObjectProxies_bound_get(data)]
    ELSE IF ObjectProxies_has(o) /\ ObjectProxies_get(data, type) # NULL
    THEN [object |-> o, data |-> data,
          proxy |-> ObjectProxies_get(data, type)]
    ELSE [object |-> ObjectProxies_specialize(o),
          data |-> ObjectProxies_add(data, fresh, type, TRUE),
          proxy |-> fresh]

\* Ref<T>::obtain and Ref<T>::release on a non-NULL proxy
Ref_obtain(o) == Object_ref(o)
Ref_release(o) == Object_unref_enter(o)

vars == <<fm, variant, dict, fmFound, fmShifted, fmCleared, fields, self, deleted, td, calls, nullCallbacks,
          held, teardowns, repushed, attachOrder, firstData, pushed, pc, loaded, holds, lockResult, weakUsed, uaf, lastCall,
          proxies, pxLog, weakRef>>

\* the ObjectProxies data of the Object, the record of the proxy destructors
\* called, and the WeakRef record of the Weak class
extVars == <<proxies, pxLog, weakRef>>

mapVars == <<fm, variant, dict, fmFound, fmShifted, fmCleared, fields>>
threadVars == <<pc, loaded, holds, lockResult, weakUsed, uaf>>
rcVars == <<threadVars, lastCall>>
objVars == <<self, deleted, td, calls, nullCallbacks, held, teardowns,
             repushed, attachOrder, firstData, pushed, rcVars, extVars>>

\* the state of the variables a specification does not use
MapIdle ==
    /\ fm = FlatMap_new
    /\ variant = "shift"
    /\ dict = [k \in Keys |-> NotFound]
    /\ fmFound = NotFound
    /\ fmShifted = FALSE
    /\ fmCleared = 0
    /\ fields = FlatMap_fields(FlatMap_new)

Threads == 1..NumThreads

Idle == [fn |-> "idle", at |-> "idle", it |-> 0]
NoRefs == [strong |-> 0, weak |-> 0]

RcIdle ==
    /\ pc = [t \in Threads |-> Idle]
    /\ loaded = [t \in Threads |-> NoRefs]
    /\ holds = [t \in Threads |-> NoRefs]
    /\ lockResult = [t \in Threads |-> "none"]
    /\ weakUsed = FALSE
    /\ uaf = FALSE
    /\ lastCall = NoCall

NoWeakRef ==
    [allocated |-> FALSE, object |-> NULL, refs |-> 0, deletes |-> 0,
     stale |-> FALSE]

\* no ObjectProxies data and no WeakRef record
ExtIdle ==
    /\ proxies = NoProxies
    /\ pxLog = NoDestructions
    /\ weakRef = NoWeakRef

ObjIdle ==
    /\ self = Object_create
    /\ deleted = 0
    /\ td = NoTeardown
    /\ calls = << >>
    /\ nullCallbacks = {}
    /\ held = [strong |-> 1, weak |-> 0, peak |-> 1]
    /\ teardowns = 0
    /\ repushed = {}
    /\ attachOrder = << >>
    /\ firstData = [c \in Classes |-> NotFound]
    /\ pushed = [d \in Dispatchers |-> << >>]
    /\ RcIdle
    /\ ExtIdle


(***************************************************************************)
(* SpecMap: one FlatMap driven by insert / find / erase, next to a         *)
(* reference dictionary.                                                   *)
(***************************************************************************)
MapInit ==
    /\ fm = FlatMap_new
    /\ variant \in {"rehash", "shift"}
    /\ dict = [k \in Keys |-> NotFound]
    /\ fmFound = NotFound
    /\ fmShifted = FALSE
    /\ fmCleared = 0
    /\ fields = FlatMap_fields(FlatMap_new)
    /\ ObjIdle

\* erasing key from m, giving m2, has moved another live key
ErasureMoves(m, m2, key) ==
    \E k \in Keys \ {key} :
        /\ FlatMap_find(m, k) # NotFound
        /\ FlatMap_find(m2, k) # FlatMap_find(m, k)

MapInsert ==
    \E k \in Keys, v \in Values :
        /\ fm' = FlatMap_insert(fm, k, v)
        /\ dict' = [dict EXCEPT ![k] = v]
        /\ fmCleared' = 0
        /\ UNCHANGED <<variant, fmFound, fmShifted, fields, objVars>>

MapFind ==
    \E k \in Keys :
        /\ fmFound' = FlatMap_get(fm, k)
        /\ UNCHANGED <<fm, variant, dict, fmShifted, fmCleared, fields, objVars>>

MapEraseRehash ==
    \E k \in Keys :
        /\ variant = "rehash"
        /\ fm' = FlatMap_erase(fm, k, variant)
        /\ dict' = [dict EXCEPT ![k] = NotFound]
        /\ fmShifted' = (fmShifted \/ ErasureMoves(fm, fm', k))
        /\ UNCHANGED <<variant, fmFound, fmCleared, fields, objVars>>

MapEraseShift ==
    \E k \in Keys :
        /\ variant = "shift"
        /\ fm' = FlatMap_erase(fm, k, variant)
        /\ dict' = [dict EXCEPT ![k] = NotFound]
        /\ fmShifted' = (fmShifted \/ ErasureMoves(fm, fm', k))
        /\ UNCHANGED <<variant, fmFound, fmCleared, fields, objVars>>

\* clear(), which only the later revisions of FlatMap have
MapClear ==
    /\ variant = "shift"
    /\ fm' = FlatMap_clear(fm)
    /\ dict' = [k \in Keys |-> NotFound]
    /\ fmCleared' = fm.capacity
    /\ UNCHANGED <<variant, fmFound, fmShifted, fields, objVars>>

MapNext ==
    MapInsert \/ MapFind \/ MapEraseRehash \/ MapEraseShift \/ MapClear

SpecMap == MapInit /\ [][MapNext]_vars

\* C8: after every operation find(k) returns the value most recently inserted
\* for k when k is live and NULL when k was erased or never inserted
C8_FindMatchesDictionary ==
    \A k \in Keys : FlatMap_get(fm, k) = dict[k]

\* the table has doubled twice, an erase has moved entries of a cluster, and a
\* live key sits away from its home slot next to an erased key
C8_Witness ==
    /\ fm.capacity >= 4 * StartCapacity
    /\ fmShifted
    /\ \E k \in Keys : dict[k] # NotFound /\ FlatMap_find(fm, k) # hash(fm, k)
    /\ \E k \in Keys : dict[k] = NotFound

\* the slots of m that hold key
SlotsOf(m, key) == {i \in 0..(m.capacity - 1) : m.table[i].key = key}

\* the number of probe steps from the home slot of the key in slot i to i
Displacement(m, i) ==
    BitAnd((i - hash(m, m.table[i].key)) % SizeTMod, m.mask)

\* C16: insert(key, value) for a key that is present overwrites only the value
\* of that key: size, capacity and the slot of every entry stay as they are
C16_OverwriteKeepsStructure ==
    \A k \in Keys, v \in Values :
        dict[k] # NotFound =>
            LET m2 == FlatMap_insert(fm, k, v)
            IN /\ m2.size = fm.size
               /\ m2.capacity = fm.capacity
               /\ \A j \in Keys : FlatMap_find(m2, j) = FlatMap_find(fm, j)

\* C17: no key occupies two slots, every slot from the home index of a live
\* key up to its slot (cyclically) is occupied, and an erased key leaves an
\* empty slot behind, not a marker: the occupied slots hold the live keys only
C17_ProbeSequenceInvariant ==
    /\ \A k \in Keys : Cardinality(SlotsOf(fm, k)) <= 1
    /\ \A i \in 0..(fm.capacity - 1) :
           IF fm.table[i].key = 0
           THEN fm.table[i] = EmptyEntry
           ELSE /\ fm.table[i].key \in Keys
                /\ dict[fm.table[i].key] # NotFound
                /\ \A n \in 0..Displacement(fm, i) :
                       fm.table[BitAnd(hash(fm, fm.table[i].key) + n,
                                       fm.mask)].key # 0

\* a backward-shift erase has moved entries in a cluster that wraps around the
\* end of the table, next to an entry that had to stay in its home slot
C17_Witness ==
    /\ variant = "shift"
    /\ fmShifted
    /\ \E k \in Keys : dict[k] = NotFound
    /\ \E i \in 0..(fm.capacity - 1) :
           /\ fm.table[i].key # 0
           /\ hash(fm, fm.table[i].key) > i
    /\ \E i \in 0..(fm.capacity - 1) :
           /\ fm.table[i].key # 0
           /\ Displacement(fm, i) = 0
           /\ fm.table[BitAnd(i + fm.mask, fm.mask)].key # 0

\* C18: clear() from any state yields the starting state: capacity 4, mask 3,
\* size 0, every slot empty, no key found, empty() true; the map is then the
\* map a constructor builds, so later inserts behave as on a fresh map
C18_ClearResets ==
    /\ LET m2 == FlatMap_clear(fm)
       IN /\ m2.capacity = 4
          /\ m2.mask = 3
          /\ m2.size = 0
          /\ DOMAIN m2.table = 0..3
          /\ \A i \in 0..3 : m2.table[i] = EmptyEntry
          /\ \A k \in Keys : FlatMap_find(m2, k) = NotFound
          /\ FlatMap_empty(m2)
          /\ m2 = FlatMap_new
    /\ fmCleared # 0 => fm = FlatMap_new /\ \A k \in Keys : dict[k] = NotFound

\* clear() has just run on a map that had grown and held entries
C18_Witness ==
    /\ fmCleared > StartCapacity
    /\ fm = FlatMap_new
    /\ fmShifted

(***************************************************************************)
(* SpecGrow: a FlatMap that receives distinct keys, followed through its   *)
(* capacity, mask and size fields only, so that the 16-bit fields can be   *)
(* taken to the capacities where their width shows.  Once capacity is 0    *)
(* the table has no slot and every further access is out of bounds.        *)
(***************************************************************************)
GrowInit ==
    /\ MapIdle
    /\ ObjIdle

GrowInsert ==
    /\ fields.capacity > 0
    /\ fields.size < MaxGrowKeys
    /\ fields' = FlatMap_insert_fields(fields)
    /\ UNCHANGED <<fm, variant, dict, fmFound, fmShifted, fmCleared, objVars>>

GrowErase ==
    /\ fields.capacity > 0
    /\ fields.size > 0
    /\ fields' = FlatMap_erase_fields(fields)
    /\ UNCHANGED <<fm, variant, dict, fmFound, fmShifted, fmCleared, objVars>>

GrowNext == GrowInsert \/ GrowErase

SpecGrow == GrowInit /\ [][GrowNext]_vars

\* on the maps of SpecMap the fields move as insert() and erase() move them
FieldsFollowMap ==
    \A k \in Keys, v \in Values :
        IF dict[k] = NotFound
        THEN FlatMap_fields(FlatMap_insert(fm, k, v))
                 = FlatMap_insert_fields(FlatMap_fields(fm))
        ELSE FlatMap_fields(FlatMap_erase(fm, k, variant))
                 = FlatMap_erase_fields(FlatMap_fields(fm))

IsPowerOfTwo(n) == n > 0 /\ BitAnd(n, n - 1) = 0

\* C19: capacity is a power of two that is at least 4 and mask is
\* capacity - 1, after any number of insertions and growth steps
C19_CapacityPowerOfTwo ==
    /\ IsPowerOfTwo(fields.capacity)
    /\ fields.capacity >= 4
    /\ fields.mask = fields.capacity - 1

\* C29: in every reachable FlatMap state size * 2 <= capacity, so the table
\* always has at least one empty slot and the probe loops of find, insert and
\* erase end for every key
C29_LoadAtMostHalf ==
    /\ fields.size * 2 <= fields.capacity
    /\ fields.size < fields.capacity

\* the slots of m that hold a key
LiveSlots(m) == {i \in 0..(m.capacity - 1) : m.table[i].key # 0}

\* C30: the size field equals the number of slots holding a non-zero key, so
\* empty() is true exactly when no live key remains, across growth, erase
\* (backward shift or rehash) and clear
C30_SizeCountsLiveSlots ==
    /\ fm.size = Cardinality(LiveSlots(fm))
    /\ fm.size = Cardinality({k \in Keys : dict[k] # NotFound})
    /\ FlatMap_empty(fm) <=> \A k \in Keys : dict[k] = NotFound
    /\ FlatMap_empty(fm) <=> \A k \in Keys : FlatMap_find(fm, k) = NotFound

\* a map that has grown, lost a key to an erase that moved entries, and
\* still holds two keys
C30_Witness ==
    /\ fm.capacity > StartCapacity
    /\ fmShifted
    /\ fm.size = 2
    /\ Cardinality({k \in Keys : dict[k] = NotFound}) >= 1
    /\ ~FlatMap_empty(fm)

(***************************************************************************)
(* SpecObj: one Object used by callers that call one function at a time.   *)
(* The callers hold the strong references they release; classes and        *)
(* methods are pushed by a strong holder.  The teardown inside the last    *)
(* Object_unref advances one callback at a time, so that the weak          *)
(* reference functions can run while a callback is on the stack.           *)
(* A class descriptor is constant: whether its finalize / free pointer is  *)
(* NULL is fixed, and is settled here when the teardown first reads it.    *)
(***************************************************************************)
Called(kind, cls) == \E n \in 1..Len(calls) : calls[n] = <<kind, cls>>

\* the values a read of the class's callback pointer can yield
CallbackIsNull(kind, cls) ==
    {b \in BOOLEAN : /\ <<kind, cls>> \in nullCallbacks => b
                     /\ Called(kind, cls) => ~b}

ObjInit ==
    /\ MapIdle
    /\ ObjIdle

ObjRef ==
    /\ deleted = 0
    /\ held.strong > 0
    /\ held.strong < MaxRefs
    /\ self' = Object_ref(self)
    /\ held' = [held EXCEPT !.strong = @ + 1,
                            !.peak = IF held.strong + 1 > @
                                     THEN held.strong + 1 ELSE @]
    /\ UNCHANGED <<mapVars, extVars, deleted, td, calls, nullCallbacks, teardowns,
                   repushed, attachOrder, firstData, pushed, rcVars>>

ObjUnref ==
    /\ deleted = 0
    /\ held.strong > 0
    /\ td.phase = "none"
    /\ self' = Object_unref_enter(self)
    /\ td' = IF Object_unref_tears_down(self)
             THEN Object_unref_begin(self) ELSE td
    /\ teardowns' = IF Object_unref_tears_down(self)
                    THEN teardowns + 1 ELSE teardowns
    /\ held' = [held EXCEPT !.strong = @ - 1]
    /\ UNCHANGED <<mapVars, extVars, deleted, calls, nullCallbacks,
                   repushed, attachOrder, firstData, pushed, rcVars>>

ObjFinalizeStep ==
    /\ deleted = 0
    /\ td.phase = "finalize"
    /\ \E isNull \in CallbackIsNull("finalize", self.classes[td.it]) :
        /\ calls' = calls \o Object_unref_finalize_call(self, td, isNull)
        /\ nullCallbacks' =
               IF isNull
               THEN nullCallbacks \cup {<<"finalize", self.classes[td.it]>>}
               ELSE nullCallbacks
        /\ td' = Object_unref_finalize_next(td)
        /\ UNCHANGED <<mapVars, extVars, self, deleted, held, teardowns,
                       repushed, attachOrder, firstData, pushed, rcVars>>

ObjFreeStep ==
    /\ deleted = 0
    /\ td.phase = "free"
    /\ Len(self.classes) > 0
    /\ \E isNull \in CallbackIsNull("free", self.classes[Len(self.classes)]) :
        /\ calls' = calls \o Object_unref_free_call(self, isNull)
        /\ nullCallbacks' =
               IF isNull
               THEN nullCallbacks
                        \cup {<<"free", self.classes[Len(self.classes)]>>}
               ELSE nullCallbacks
        /\ self' = Object_unref_free_pop(self)
        /\ UNCHANGED <<mapVars, extVars, deleted, td, held, teardowns,
                       repushed, attachOrder, firstData, pushed, rcVars>>

\* the end of Object_unref: clear the maps, release the protecting weak
\* reference
ObjUnrefFinish ==
    /\ deleted = 0
    /\ td.phase = "free"
    /\ Len(self.classes) = 0
    /\ self' = Object_weak_unref(Object_unref_clear(self))
    /\ deleted' = IF Object_weak_unref_deletes(Object_unref_clear(self))
                  THEN deleted + 1 ELSE deleted
    /\ td' = NoTeardown
    /\ UNCHANGED <<mapVars, extVars, calls, nullCallbacks, held, teardowns,
                   repushed, attachOrder, firstData, pushed, rcVars>>

ObjWeakRef ==
    /\ deleted = 0
    /\ held.strong > 0 \/ held.weak > 0
    /\ held.weak < MaxWeakRefs
    /\ self' = Object_weak_ref(self)
    /\ held' = [held EXCEPT !.weak = @ + 1]
    /\ UNCHANGED <<mapVars, extVars, deleted, td, calls, nullCallbacks, teardowns,
                   repushed, attachOrder, firstData, pushed, rcVars>>

ObjWeakUnref ==
    /\ deleted = 0
    /\ held.weak > 0
    /\ self' = Object_weak_unref(self)
    /\ deleted' = IF Object_weak_unref_deletes(self)
                  THEN deleted + 1 ELSE deleted
    /\ held' = [held EXCEPT !.weak = @ - 1]
    /\ UNCHANGED <<mapVars, extVars, td, calls, nullCallbacks, teardowns,
                   repushed, attachOrder, firstData, pushed, rcVars>>

ObjWeakLock ==
    /\ deleted = 0
    /\ held.weak > 0
    /\ held.strong < MaxRefs
    /\ self' = Object_weak_lock(self)
    /\ held' = IF Object_weak_lock_result(self)
               THEN [held EXCEPT !.strong = @ + 1,
                                 !.peak = IF held.strong + 1 > @
                                          THEN held.strong + 1 ELSE @]
               ELSE held
    /\ UNCHANGED <<mapVars, extVars, deleted, td, calls, nullCallbacks, teardowns,
                   repushed, attachOrder, firstData, pushed, rcVars>>

ObjClassPush ==
    \E cls \in Classes, data \in Datas :
        /\ deleted = 0
        /\ held.strong > 0
        /\ self' = Object_class_push(self, cls, data)
        /\ firstData' = IF firstData[cls] = NotFound
                        THEN [firstData EXCEPT ![cls] = data] ELSE firstData
        /\ repushed' = IF firstData[cls] \notin {NotFound, data}
                       THEN {cls} ELSE repushed
        /\ attachOrder' = IF firstData[cls] = NotFound
                          THEN Append(attachOrder, cls) ELSE attachOrder
        /\ UNCHANGED <<mapVars, extVars, deleted, td, calls, nullCallbacks, held,
                       teardowns, pushed, rcVars>>

RECURSIVE SumLen(_, _)
SumLen(f, S) ==
    IF S = {} THEN 0
    ELSE LET x == CHOOSE y \in S : TRUE IN Len(f[x]) + SumLen(f, S \ {x})

ObjMethodPush ==
    \E dispatcher \in Dispatchers, method \in Methods :
        /\ deleted = 0
        /\ held.strong > 0
        /\ SumLen(pushed, Dispatchers) < MaxTeardownMethods
        /\ Object_method_push_asserts(self, dispatcher, method)
        /\ self' = Object_method_push(self, dispatcher, method)
        /\ pushed' = [pushed EXCEPT ![dispatcher] = Append(@, method)]
        /\ UNCHANGED <<mapVars, extVars, deleted, td, calls, nullCallbacks, held,
                       teardowns, repushed, attachOrder, firstData, rcVars>>

ObjNext ==
    \/ ObjRef
    \/ ObjUnref
    \/ ObjFinalizeStep
    \/ ObjFreeStep
    \/ ObjUnrefFinish
    \/ ObjWeakRef
    \/ ObjWeakUnref
    \/ ObjWeakLock
    \/ ObjClassPush
    \/ ObjMethodPush

SpecObj == ObjInit /\ [][ObjNext]_vars

(***************************************************************************)
(* Properties of SpecObj.                                                  *)
(***************************************************************************)
\* how often x occurs in the sequence q
Occurrences(q, x) == Cardinality({n \in 1..Len(q) : q[n] = x})

\* the position of x in the duplicate-free sequence q (0 when absent)
Position(q, x) ==
    IF \E n \in 1..Len(q) : q[n] = x
    THEN CHOOSE n \in 1..Len(q) : q[n] = x ELSE 0

TeardownComplete == teardowns > 0 /\ td.phase = "none"

\* the callback pointer of the class was read and acted on
Settled(kind, cls) == Called(kind, cls) \/ <<kind, cls>> \in nullCallbacks

\* C6: for classes attached in the order c1..cn the last Object_unref calls the
\* non-null finalize callbacks in the order cn..c1, then the non-null free
\* callbacks in the order cn..c1, and no free callback runs before every
\* finalize callback has run
C6_TeardownOrder ==
    /\ teardowns = 0 => calls = << >>
    /\ \A n \in 1..Len(calls) :
           /\ Position(attachOrder, calls[n][2]) > 0
           /\ Occurrences(calls, calls[n]) = 1
    /\ \A m, n \in 1..Len(calls) :
           m < n =>
               /\ ~(calls[m][1] = "free" /\ calls[n][1] = "finalize")
               /\ calls[m][1] = calls[n][1] =>
                      Position(attachOrder, calls[m][2])
                          > Position(attachOrder, calls[n][2])
    /\ (\E n \in 1..Len(calls) : calls[n][1] = "free") =>
           \A k \in 1..Len(attachOrder) : Settled("finalize", attachOrder[k])
    /\ TeardownComplete =>
           \A k \in 1..Len(attachOrder) :
               /\ Settled("finalize", attachOrder[k])
               /\ Settled("free", attachOrder[k])

\* three classes were attached and all six callbacks ran
C6_Witness ==
    /\ TeardownComplete
    /\ Len(attachOrder) = 3
    /\ Len(calls) = 6

\* C7: Object_create yields strong 1 and weak 0; while references are obtained
\* and released the strong count is 1 + obtained - released (held.strong, where
\* a successful Object_weak_lock obtains one too) and no teardown has run; the
\* release that brings it to 0 starts the one and only teardown
C7_RefcountRoundTrip ==
    /\ (teardowns = 0 /\ held.peak = 1 /\ held.strong = 1 /\ held.weak = 0) =>
           Object_weak_refs_get(self) = 0
    /\ deleted = 0 => Object_refs_get(self) = held.strong
    /\ held.strong > 0 => teardowns = 0 /\ calls = << >> /\ td.phase = "none"
    /\ held.strong = 0 => teardowns = 1

\* references were obtained and released again, and the final release has
\* torn the Object down
C7_Witness ==
    /\ held.peak = MaxRefs
    /\ held.strong = 0
    /\ TeardownComplete
    /\ Len(calls) > 0

C13_CountsState ==
    deleted = 0 =>
        /\ Object_refs_get(self) = held.strong
        /\ Object_weak_refs_get(self)
               = held.weak + (IF td.phase = "none" THEN 0 ELSE 1)

C13_CountsStep ==
    deleted' = 0 =>
        /\ held'.weak # held.weak =>
               Object_refs_get(self') = Object_refs_get(self)
        /\ (held'.strong # held.strong /\ td' = td) =>
               Object_weak_refs_get(self') = Object_weak_refs_get(self)

\* C13: Object_weak_ref and Object_weak_unref never change the strong count,
\* Object_ref and an Object_unref that is not the last never change the weak
\* count, and the weak count is up by exactly one during the teardown and back
\* at the callers' own weak references once the last Object_unref has returned
C13_CountsDoNotInterfere == []C13_CountsState /\ [][C13_CountsStep]_vars

\* strong references were obtained and released, and the last Object_unref
\* has returned while a weak reference is held
C13_Witness ==
    /\ teardowns = 1
    /\ td.phase = "none"
    /\ deleted = 0
    /\ held.weak = 1
    /\ held.peak = MaxRefs
    /\ Object_weak_refs_get(self) = 1

\* C9: a second Object_class_push of an attached class changes nothing:
\* Object_class_check keeps returning the first data pointer, the class is in
\* the class list once, and its callbacks run once at teardown
C9_ClassPushIdempotent ==
    \A cls \in Classes :
        firstData[cls] # NotFound =>
            /\ teardowns = 0 =>
                   /\ Object_class_check(self, cls)
                   /\ Object_class_data(self, cls) = firstData[cls]
                   /\ Occurrences(self.classes, cls) = 1
                   /\ \A data \in Datas :
                          Object_class_push(self, cls, data) = self
            /\ Occurrences(calls, <<"finalize", cls>>) <= 1
            /\ Occurrences(calls, <<"free", cls>>) <= 1
            /\ TeardownComplete =>
                   /\ Settled("finalize", cls)
                   /\ Settled("free", cls)

\* a class was pushed a second time with another data pointer and both its
\* callbacks have run
C9_Witness ==
    \E cls \in repushed :
        /\ TeardownComplete
        /\ Called("finalize", cls)
        /\ Called("free", cls)

\* the keys of the occupied slots of m
KeySet(m) == {m.table[i].key : i \in 0..(m.capacity - 1)} \ {0}

\* the elements of the sequence q
Range(q) == {q[n] : n \in 1..Len(q)}

\* C22: while the strong count is above 0, after any sequence of
\* Object_class_push and Object_method_push calls no class occurs twice in the
\* class list and the keys of datas are exactly the classes of the class list
C22_ClassListMatchesDatas ==
    (deleted = 0 /\ Object_refs_get(self) > 0) =>
        /\ \A cls \in Classes : Occurrences(self.classes, cls) <= 1
        /\ KeySet(self.datas) = Range(self.classes)
        /\ self.datas.size = Len(self.classes)

\* a live Object with three classes, one pushed again with other data, whose
\* datas map has grown, and with a pushed method
C22_Witness ==
    /\ deleted = 0
    /\ Object_refs_get(self) > 0
    /\ Len(self.classes) = 3
    /\ self.datas.capacity > StartCapacity
    /\ repushed # {}
    /\ \E cls \in Range(self.classes) : Object_class_data(self, cls) = NULL
    /\ \E d \in Dispatchers : Object_method_get(self, d) # NULL

(***************************************************************************)
(* SpecTd: one Object with classes and overridden methods whose last strong *)
(* reference is released, watched through the teardown and after it.  The  *)
(* finalize and free callbacks receive the handle, and a weak holder keeps *)
(* it: both can call Object_ref and Object_unref on it while the strong    *)
(* count is 0.                                                             *)
(***************************************************************************)
TdInit ==
    /\ MapIdle
    /\ ObjIdle

TdClassPush ==
    /\ Len(attachOrder) < MaxObservedClasses
    /\ ObjClassPush

TdMethodPush ==
    \E dispatcher \in Dispatchers, method \in Methods :
        /\ deleted = 0
        /\ held.strong > 0
        /\ SumLen(pushed, Dispatchers) < MaxObservedPushes
        /\ Object_method_push_asserts(self, dispatcher, method)
        /\ self' = Object_method_push(self, dispatcher, method)
        /\ pushed' = [pushed EXCEPT ![dispatcher] = Append(@, method)]
        /\ UNCHANGED <<mapVars, extVars, deleted, td, calls, nullCallbacks, held,
                       teardowns, repushed, attachOrder, firstData, rcVars>>

\* a callback of the teardown, or a weak holder, has the handle of an Object
\* whose strong count is 0
DeadHandle ==
    /\ deleted = 0
    /\ strong_is_zero(self.refs)
    /\ td.phase # "none" \/ held.weak > 0

TdDeadRef ==
    /\ DeadHandle
    /\ self' = Object_ref(self)
    /\ lastCall' = [fn |-> "Object_ref", null |-> FALSE,
                    ret |-> Returned("void", 0)]
    /\ UNCHANGED <<mapVars, extVars, deleted, td, calls, nullCallbacks, held,
                   teardowns, repushed, attachOrder, firstData, pushed,
                   threadVars>>

TdDeadUnref ==
    /\ DeadHandle
    /\ self' = Object_unref_enter(self)
    /\ td' = IF Object_unref_tears_down(self)
             THEN Object_unref_begin(self) ELSE td
    /\ teardowns' = IF Object_unref_tears_down(self)
                    THEN teardowns + 1 ELSE teardowns
    /\ lastCall' = [fn |-> "Object_unref", null |-> FALSE,
                    ret |-> Returned("void", 0)]
    /\ UNCHANGED <<mapVars, extVars, deleted, calls, nullCallbacks, held,
                   repushed, attachOrder, firstData, pushed, threadVars>>

TdNext ==
    \/ TdClassPush
    \/ TdMethodPush
    \/ ObjUnref
    \/ ObjFinalizeStep
    \/ ObjFreeStep
    \/ ObjUnrefFinish
    \/ ObjWeakRef
    \/ ObjWeakUnref
    \/ TdDeadRef
    \/ TdDeadUnref

SpecTd == TdInit /\ [][TdNext]_vars

C11_DeadState ==
    /\ teardowns <= 1
    /\ (deleted = 0 /\ teardowns > 0) => Object_refs_get(self) = 0
    /\ (deleted = 0 /\ Object_refs_get(self) = 0) =>
           /\ Object_ref(self) = self
           /\ Object_unref_enter(self) = self
           /\ ~Object_unref_tears_down(self)

C11_DeadStep ==
    /\ (deleted = 0 /\ deleted' = 0 /\ Object_refs_get(self) = 0) =>
           /\ Object_refs_get(self') = 0
           /\ teardowns' = teardowns
    /\ lastCall' # lastCall =>
           /\ self' = self
           /\ td' = td
           /\ calls' = calls
           /\ deleted' = deleted

\* C11: while the strong count is 0, inside the callbacks of the teardown and
\* afterwards, Object_ref and Object_unref change neither count, the strong
\* count stays 0 and no second teardown starts
C11_DeadRefUnrefNoOp == []C11_DeadState /\ [][C11_DeadStep]_vars

\* Object_unref was called on the handle between two free callbacks
C11_Witness ==
    /\ lastCall.fn = "Object_unref"
    /\ td.phase = "free"
    /\ Len(self.classes) = 1
    /\ \E n \in 1..Len(calls) : calls[n][1] = "free"

\* the teardown has finished and a weak holder keeps the shell
ZombieObject == TeardownComplete /\ deleted = 0

\* C12: in the Zombie state the class list and the three maps are empty:
\* Object_class_check is false for every class, Object_method_get and
\* Object_supermethod_get are NULL for every dispatcher and method, and
\* Object_refs_get is 0
C12_ZombieIsEmpty ==
    ZombieObject =>
        /\ Object_refs_get(self) = 0
        /\ Object_weak_refs_get(self) > 0
        /\ self.classes = << >>
        /\ FlatMap_empty(self.datas)
        /\ FlatMap_empty(self.methods)
        /\ FlatMap_empty(self.supermethods)
        /\ \A cls \in Classes : ~Object_class_check(self, cls)
        /\ \A d \in Dispatchers : Object_method_get(self, d) = NULL
        /\ \A m \in Methods : Object_supermethod_get(self, m) = NULL

\* the Zombie of an Object that had two classes and an overridden method
C12_Witness ==
    /\ ZombieObject
    /\ Len(attachOrder) = 2
    /\ \E d \in Dispatchers : Len(pushed[d]) = 2

C20_FinalizeState ==
    td.phase = "finalize" =>
        /\ self.classes = attachOrder
        /\ \A k \in 1..Len(attachOrder) :
               /\ Object_class_check(self, attachOrder[k])
               /\ Object_class_data(self, attachOrder[k])
                      = firstData[attachOrder[k]]
        /\ \A d \in Dispatchers :
               Object_method_get(self, d)
                   = IF pushed[d] = << >> THEN NULL
                     ELSE pushed[d][Len(pushed[d])]

\* the step is the last Object_unref up to its first finalize callback, or a
\* step made while a later finalize callback is still to come
C20_FinalizeStep ==
    td'.phase = "finalize" =>
        /\ self'.classes = self.classes
        /\ \A cls \in Classes :
               /\ Object_class_check(self', cls) = Object_class_check(self, cls)
               /\ Object_class_data(self', cls) = Object_class_data(self, cls)
        /\ \A d \in Dispatchers :
               Object_method_get(self', d) = Object_method_get(self, d)
        /\ \A m \in Methods :
               Object_supermethod_get(self', m)
                   = Object_supermethod_get(self, m)

\* C20: while the finalize callbacks run, Object_class_check is true with the
\* original data pointer for every attached class, and Object_method_get and
\* Object_supermethod_get return what they returned before the last
\* Object_unref
C20_FinalizeSeesIntactState ==
    []C20_FinalizeState /\ [][C20_FinalizeStep]_vars

\* a finalize callback has run and another is about to, on an Object with an
\* overridden method
C20_Witness ==
    /\ td.phase = "finalize"
    /\ \E n \in 1..Len(calls) : calls[n][1] = "finalize"
    /\ \E d \in Dispatchers :
           /\ Len(pushed[d]) = 2
           /\ Object_supermethod_get(self, pushed[d][2]) = pushed[d][1]

\* C21: while the free callback of class X runs (the free loop stands at X,
\* the last class of the list), every class attached after X has had its free
\* callback and is off the class list, no class attached up to X has been
\* freed yet, and Object_class_check is still true, with the attached data
\* pointer, for X and every class attached before X
C21_FreeSeesBaseClasses ==
    (td.phase = "free" /\ Len(self.classes) > 0) =>
        LET p == Len(self.classes)
        IN /\ p <= Len(attachOrder)
           /\ self.classes = SubSeq(attachOrder, 1, p)
           /\ \A k \in (p + 1)..Len(attachOrder) :
                  /\ Settled("free", attachOrder[k])
                  /\ Occurrences(calls, <<"free", attachOrder[k]>>) <= 1
                  /\ Occurrences(self.classes, attachOrder[k]) = 0
           /\ \A k \in 1..p :
                  /\ ~Settled("free", attachOrder[k])
                  /\ Object_class_check(self, attachOrder[k])
                  /\ Object_class_data(self, attachOrder[k])
                         = firstData[attachOrder[k]]

\* the free callback of the class attached second has run and the free loop
\* stands at the class attached first
C21_Witness ==
    /\ td.phase = "free"
    /\ Len(attachOrder) = 2
    /\ self.classes = <<attachOrder[1]>>
    /\ Called("free", attachOrder[2])

(***************************************************************************)
(* SpecMeth: Object_method_push calls on one live Object.                  *)
(***************************************************************************)
MethInit ==
    /\ MapIdle
    /\ ObjIdle

MethPush ==
    \E dispatcher \in Dispatchers, method \in Methods :
        /\ SumLen(pushed, Dispatchers) < MaxMethodPushes
        /\ Object_method_push_asserts(self, dispatcher, method)
        /\ self' = Object_method_push(self, dispatcher, method)
        /\ pushed' = [pushed EXCEPT ![dispatcher] = Append(@, method)]
        /\ UNCHANGED <<mapVars, extVars, deleted, td, calls, nullCallbacks, held,
                       teardowns, repushed, attachOrder, firstData,
                       rcVars>>

\* any function called with self = NULL: it returns before it touches an
\* Object
MethNullCall ==
    \E fn \in ObjectFunctions :
        /\ lastCall' = [fn |-> fn, null |-> TRUE,
                        ret |-> Object_null_return(fn)]
        /\ UNCHANGED <<mapVars, extVars, self, deleted, td, calls, nullCallbacks, held,
                       teardowns, repushed, attachOrder, firstData, pushed,
                       threadVars>>

MethNext == MethPush \/ MethNullCall

SpecMeth == MethInit /\ [][MethNext]_vars

\* the methods visited by following Object_supermethod_get from method, at
\* most fuel of them
RECURSIVE SuperChain(_, _, _)
SuperChain(o, method, fuel) ==
    IF method = NULL \/ fuel = 0 THEN << >>
    ELSE <<method>> \o SuperChain(o, Object_supermethod_get(o, method),
                                  fuel - 1)

Reverse(q) == [n \in 1..Len(q) |-> q[Len(q) + 1 - n]]

\* the methods of dispatcher d are pairwise distinct and pushed nowhere else
PushedOnce(d) ==
    /\ \A m, n \in 1..Len(pushed[d]) : m # n => pushed[d][m] # pushed[d][n]
    /\ \A e \in Dispatchers \ {d} :
           \A m \in 1..Len(pushed[d]), n \in 1..Len(pushed[e]) :
               pushed[d][m] # pushed[e][n]

\* C10: after pushing pairwise distinct methods M1..Mn on dispatcher D,
\* Object_method_get(D) is Mn, Object_supermethod_get(Mi) is M(i-1) for i > 1
\* and NULL for M1, so the supermethod links visit Mn..M1 and stop
C10_OverrideChain ==
    \A d \in Dispatchers :
        (Len(pushed[d]) > 0 /\ PushedOnce(d)) =>
            /\ Object_method_get(self, d) = pushed[d][Len(pushed[d])]
            /\ \A n \in 2..Len(pushed[d]) :
                   Object_supermethod_get(self, pushed[d][n])
                       = pushed[d][n - 1]
            /\ Object_supermethod_get(self, pushed[d][1]) = NULL
            /\ SuperChain(self, Object_method_get(self, d),
                          Len(pushed[d]) + 1) = Reverse(pushed[d])

\* three distinct methods were pushed on one dispatcher
C10_Witness ==
    \E d \in Dispatchers : Len(pushed[d]) = 3 /\ PushedOnce(d)

\* the method was pushed on this Object before, on some dispatcher
PushedBefore(method) ==
    \E d \in Dispatchers : \E n \in 1..Len(pushed[d]) : pushed[d][n] = method

\* C14: a push of a method value that was pushed on this Object before, on
\* the same or on another dispatcher, fails an assertion of Object_method_push
C14_RepeatedPushAsserted ==
    \A dispatcher \in Dispatchers, method \in Methods :
        PushedBefore(method) =>
            ~Object_method_push_asserts(self, dispatcher, method)

\* the method has a supermethod entry on o
HasSupermethod(o, method) == FlatMap_find(o.supermethods, method) # NotFound

\* C31: once Object_method_push has recorded a supermethod for M, no later
\* Object_method_push changes Object_supermethod_get(M); pushing M again on a
\* dispatcher whose current method differs makes M the resolved method and
\* keeps the supermethod first recorded for M
C31_SuperKept ==
    \A m \in Methods :
        HasSupermethod(self, m) =>
            /\ HasSupermethod(self', m)
            /\ Object_supermethod_get(self', m)
                   = Object_supermethod_get(self, m)

C31_Resolves ==
    \A d \in Dispatchers :
        Len(pushed[d]) > 0 =>
            Object_method_get(self, d) = pushed[d][Len(pushed[d])]

C31_SupermethodFixed == []C31_Resolves /\ [][C31_SuperKept]_vars

\* a method with a recorded supermethod was pushed again over another
\* method, and is the resolved method with its first supermethod
C31_Witness ==
    \E d \in Dispatchers :
        LET n == Len(pushed[d])
        IN /\ n >= 2
           /\ HasSupermethod(self, pushed[d][n])
           /\ Object_supermethod_get(self, pushed[d][n]) # pushed[d][n - 1]
           /\ Object_method_get(self, d) = pushed[d][n]

\* C32: after any sequence of Object_method_push calls that pass the
\* assertions of the function, the supermethod relation is acyclic:
\* following Object_supermethod_get from any method reaches NULL
C32_SupermethodAcyclic ==
    \A m \in Methods :
        Len(SuperChain(self, m, MaxMethods + 1)) <= MaxMethods

C15_NullState ==
    lastCall.null =>
        /\ lastCall.fn \in {"Object_ref", "Object_unref", "Object_weak_ref",
                            "Object_weak_unref", "Object_class_push",
                            "Object_method_push"} =>
               lastCall.ret.type = "void"
        /\ lastCall.fn \in {"Object_refs_get", "Object_weak_refs_get"} =>
               lastCall.ret.type = "uint32_t" /\ lastCall.ret.value = 0
        /\ lastCall.fn \in {"Object_weak_lock", "Object_class_check"} =>
               lastCall.ret.type = "bool" /\ lastCall.ret.value = FALSE
        /\ lastCall.fn \in {"Object_method_get", "Object_supermethod_get",
                            "Object_inspect"} =>
               lastCall.ret.type = "pointer" /\ lastCall.ret.value = NULL

C15_NullStep ==
    (lastCall'.null /\ lastCall' # lastCall) =>
        /\ self' = self
        /\ deleted' = deleted
        /\ teardowns' = teardowns
        /\ calls' = calls

\* C15: a call with a NULL handle does nothing and returns a neutral value:
\* nothing from the void functions, 0 from the count getters, false from
\* Object_weak_lock and Object_class_check, NULL from Object_method_get,
\* Object_supermethod_get and Object_inspect
C15_NullHandleNeutral == []C15_NullState /\ [][C15_NullStep]_vars

\* Object_weak_lock(NULL) was called next to an Object with overridden methods
C15_Witness ==
    /\ lastCall.null
    /\ lastCall.fn = "Object_weak_lock"
    /\ \E d \in Dispatchers : Len(pushed[d]) > 1

(***************************************************************************)
(* SpecRC: threads that share one Object and call the reference functions  *)
(* concurrently.  A step is one access to the shared Object: an atomic     *)
(* operation on refs, a read of the class list, the clearing of the maps,  *)
(* `delete self`.  A thread calls Object_ref / Object_unref only while it  *)
(* holds a strong reference, Object_weak_unref / Object_weak_lock only     *)
(* while it holds a weak one, and releases only what it holds; a reference *)
(* it obtains may be handed to another thread.                             *)
(* The contents of the shell after `delete self` are undefined: a later    *)
(* access finds them unchanged or overwritten.                             *)
(***************************************************************************)
RECURSIVE SumOver(_, _, _)
SumOver(f, S, field) ==
    IF S = {} THEN 0
    ELSE LET x == CHOOSE y \in S : TRUE
         IN f[x][field] + SumOver(f, S \ {x}, field)

StrongHeld == SumOver(holds, Threads, "strong")
WeakHeld == SumOver(holds, Threads, "weak")

\* strong / weak references a call in progress is about to add
StrongPending == Cardinality({t \in Threads : pc[t].fn \in {"ref", "weak_lock"}})

At(t, fn, at) == pc[t].fn = fn /\ pc[t].at = at

Goto(t, fn, at) == pc' = [pc EXCEPT ![t] = [fn |-> fn, at |-> at, it |-> 0]]

Return(t) ==
    /\ pc' = [pc EXCEPT ![t] = Idle]
    /\ loaded' = [loaded EXCEPT ![t] = NoRefs]

\* every step that touches the shell
Access == uaf' = (uaf \/ deleted > 0)

\* what a freed shell may hold when it is accessed again
FreedContents(o) ==
    {[o EXCEPT !.refs = r, !.classes = c] :
        r \in {o.refs} \cup [strong : 0..1, weak : 0..1],
        c \in {o.classes, << >>}}

\* the Object after Object_create and n calls of Object_class_push
RECURSIVE WithClasses(_)
WithClasses(n) ==
    IF n = 0 THEN Object_create
    ELSE Object_class_push(WithClasses(n - 1), 8 * n, NULL)

RcInit ==
    /\ MapIdle
    /\ ExtIdle
    /\ \E n \in 0..MaxSharedClasses :
           /\ self = WithClasses(n)
           /\ attachOrder = [k \in 1..n |-> 8 * k]
    /\ deleted = 0
    /\ td = NoTeardown
    /\ calls = << >>
    /\ nullCallbacks = {}
    /\ held = [strong |-> 1, weak |-> 0, peak |-> 1]
    /\ teardowns = 0
    /\ repushed = {}
    /\ firstData = [c \in Classes |-> NotFound]
    /\ pushed = [d \in Dispatchers |-> << >>]
    /\ pc = [t \in Threads |-> Idle]
    /\ loaded = [t \in Threads |-> NoRefs]
    /\ holds = [t \in Threads |-> IF t = 1 THEN [strong |-> 1, weak |-> 0]
                                  ELSE NoRefs]
    /\ lockResult = [t \in Threads |-> "none"]
    /\ weakUsed = FALSE
    /\ uaf = FALSE
    /\ lastCall = NoCall

rcFrame ==
    <<mapVars, extVars, td, held, repushed, attachOrder, firstData, pushed, lastCall>>

\* Object_ref, lines 236-238: load refs, return if the strong count is 0
RcRefLoad(t) ==
    /\ pc[t] = Idle
    /\ holds[t].strong > 0
    /\ StrongHeld + StrongPending < MaxRefs
    /\ Access
    /\ IF strong_is_zero(self.refs)
       THEN UNCHANGED <<pc, loaded>>
       ELSE /\ Goto(t, "ref", "fetch_add")
            /\ loaded' = [loaded EXCEPT ![t] = self.refs]
    /\ UNCHANGED <<rcFrame, self, deleted, calls, nullCallbacks, teardowns,
                   holds, lockResult, weakUsed>>

\* Object_ref, line 240: fetch_add(1); the new reference goes to thread u
RcRefAdd(t) ==
    /\ At(t, "ref", "fetch_add")
    /\ Access
    /\ self' = [self EXCEPT !.refs = fetch_add_strong(@)]
    /\ \E u \in Threads :
           holds' = [holds EXCEPT ![u].strong = @ + 1]
    /\ Return(t)
    /\ UNCHANGED <<rcFrame, deleted, calls, nullCallbacks, teardowns,
                   lockResult, weakUsed>>

\* Object_unref, lines 248-250
RcUnrefLoad(t) ==
    /\ pc[t] = Idle
    /\ holds[t].strong > 0
    /\ Access
    /\ IF strong_is_zero(self.refs)
       THEN UNCHANGED <<pc, loaded>>
       ELSE /\ Goto(t, "unref", "fetch_sub")
            /\ loaded' = [loaded EXCEPT ![t] = self.refs]
    /\ UNCHANGED <<rcFrame, self, deleted, calls, nullCallbacks, teardowns,
                   holds, lockResult, weakUsed>>

\* Object_unref, lines 252-254: fetch_sub(1), return unless it returned 1
RcUnrefSub(t) ==
    /\ At(t, "unref", "fetch_sub")
    /\ Access
    /\ self' = [self EXCEPT !.refs = fetch_sub_strong(@)]
    /\ holds' = [holds EXCEPT ![t].strong = @ - 1]
    /\ IF released_last_strong(self.refs)
       THEN /\ Goto(t, "unref", "weak_ref")
            /\ loaded' = [loaded EXCEPT ![t] = NoRefs]
            /\ teardowns' = teardowns + 1
       ELSE /\ Return(t)
            /\ UNCHANGED teardowns
    /\ UNCHANGED <<rcFrame, deleted, calls, nullCallbacks, lockResult,
                   weakUsed>>

\* Object_unref, lines 256-258: the protecting Object_weak_ref, then rbegin()
RcUnrefWeakRef(t) ==
    /\ At(t, "unref", "weak_ref")
    /\ Access
    /\ self' = Object_weak_ref(self)
    /\ pc' = [pc EXCEPT ![t] =
                 IF Len(self.classes) = 0
                 THEN [fn |-> "unref", at |-> "free", it |-> 0]
                 ELSE [fn |-> "unref", at |-> "finalize",
                       it |-> Len(self.classes)]]
    /\ UNCHANGED <<rcFrame, deleted, calls, nullCallbacks, teardowns,
                   loaded, holds, lockResult, weakUsed>>

\* Object_unref, lines 258-262: one iteration of the finalize loop
RcUnrefFinalize(t) ==
    /\ At(t, "unref", "finalize")
    /\ Access
    /\ IF pc[t].it > Len(self.classes)
       THEN /\ pc' = [pc EXCEPT ![t] = [fn |-> "unref", at |-> "free",
                                        it |-> 0]]
            /\ UNCHANGED <<calls, nullCallbacks>>
       ELSE /\ \E isNull \in CallbackIsNull("finalize",
                                            self.classes[pc[t].it]) :
                   /\ calls' = calls \o
                          Object_unref_finalize_call(self, pc[t], isNull)
                   /\ nullCallbacks' =
                          IF isNull
                          THEN nullCallbacks \cup
                                   {<<"finalize", self.classes[pc[t].it]>>}
                          ELSE nullCallbacks
            /\ LET next == Object_unref_finalize_next(
                                [phase |-> "finalize", it |-> pc[t].it])
               IN pc' = [pc EXCEPT ![t] = [fn |-> "unref", at |-> next.phase,
                                           it |-> next.it]]
    /\ UNCHANGED <<rcFrame, self, deleted, teardowns, loaded, holds,
                   lockResult, weakUsed>>

\* Object_unref, lines 264-270: one iteration of the free loop
RcUnrefFree(t) ==
    /\ At(t, "unref", "free")
    /\ Len(self.classes) > 0
    /\ Access
    /\ \E isNull \in CallbackIsNull("free", self.classes[Len(self.classes)]) :
           /\ calls' = calls \o Object_unref_free_call(self, isNull)
           /\ nullCallbacks' =
                  IF isNull
                  THEN nullCallbacks \cup
                           {<<"free", self.classes[Len(self.classes)]>>}
                  ELSE nullCallbacks
    /\ self' = Object_unref_free_pop(self)
    /\ UNCHANGED <<rcFrame, deleted, teardowns, pc, loaded, holds,
                   lockResult, weakUsed>>

\* Object_unref, lines 264 and 272-276: the loop ends, the maps are cleared,
\* Object_weak_unref is entered
RcUnrefClear(t) ==
    /\ At(t, "unref", "free")
    /\ Len(self.classes) = 0
    /\ Access
    /\ self' = Object_unref_clear(self)
    /\ Goto(t, "unref", "weak_unref")
    /\ UNCHANGED <<rcFrame, deleted, calls, nullCallbacks, teardowns,
                   loaded, holds, lockResult, weakUsed>>

\* Object_weak_ref, line 290; the new reference goes to thread u
RcWeakRef(t) ==
    /\ pc[t] = Idle
    /\ holds[t].strong > 0 \/ holds[t].weak > 0
    /\ WeakHeld < MaxWeakRefs
    /\ Access
    /\ self' = Object_weak_ref(self)
    /\ \E u \in Threads :
           holds' = [holds EXCEPT ![u].weak = @ + 1]
    /\ weakUsed' = TRUE
    /\ UNCHANGED <<rcFrame, deleted, calls, nullCallbacks, teardowns,
                   pc, loaded, lockResult>>

\* the thread is at the start of Object_weak_unref: called by a weak holder,
\* or from the end of Object_unref
EntersWeakUnref(t) ==
    \/ pc[t] = Idle /\ holds[t].weak > 0
    \/ At(t, "unref", "weak_unref")

\* Object_weak_unref, lines 297-299
RcWeakUnrefLoad(t) ==
    /\ EntersWeakUnref(t)
    /\ Access
    /\ IF weak_is_zero(self.refs)
       THEN Return(t)
       ELSE /\ pc' = [pc EXCEPT ![t] =
                         [fn |-> IF pc[t] = Idle THEN "weak_unref"
                                 ELSE "unref",
                          at |-> "fetch_sub_weak", it |-> 0]]
            /\ loaded' = [loaded EXCEPT ![t] = self.refs]
    /\ UNCHANGED <<rcFrame, self, deleted, calls, nullCallbacks, teardowns,
                   holds, lockResult, weakUsed>>

\* Object_weak_unref, lines 301-305: fetch_sub(1 << 32) and the decision
RcWeakUnrefSub(t) ==
    /\ pc[t].at = "fetch_sub_weak"
    /\ Access
    /\ self' = [self EXCEPT !.refs = fetch_sub_weak(@)]
    /\ holds' = IF pc[t].fn = "weak_unref"
                THEN [holds EXCEPT ![t].weak = @ - 1] ELSE holds
    /\ IF released_last_ref(self.refs)
       THEN /\ pc' = [pc EXCEPT ![t].at = "delete"]
            /\ loaded' = [loaded EXCEPT ![t] = NoRefs]
       ELSE Return(t)
    /\ UNCHANGED <<rcFrame, deleted, calls, nullCallbacks, teardowns,
                   lockResult, weakUsed>>

\* Object_weak_unref, line 306: delete self
RcDelete(t) ==
    /\ pc[t].at = "delete"
    /\ deleted' = deleted + 1
    /\ self' \in IF \E u \in Threads \ {t} : pc[u] # Idle
                 THEN FreedContents(self) ELSE {self}
    /\ Return(t)
    /\ UNCHANGED <<rcFrame, calls, nullCallbacks, teardowns, holds,
                   lockResult, weakUsed, uaf>>

\* Object_weak_lock, lines 321-322: load refs, return false if strong is 0
RcLockLoad(t) ==
    /\ pc[t] = Idle
    /\ holds[t].weak > 0
    /\ StrongHeld + StrongPending < MaxRefs
    /\ Access
    /\ IF strong_is_zero(self.refs)
       THEN /\ lockResult' = [lockResult EXCEPT ![t] = "false"]
            /\ UNCHANGED <<pc, loaded>>
       ELSE /\ lockResult' = [lockResult EXCEPT ![t] = "none"]
            /\ Goto(t, "weak_lock", "cas")
            /\ loaded' = [loaded EXCEPT ![t] = self.refs]
    /\ UNCHANGED <<rcFrame, self, deleted, calls, nullCallbacks, teardowns,
                   holds, weakUsed>>

\* Object_weak_lock, lines 322-326: compare_exchange_weak; on failure it
\* reloads refs and the loop condition is tested again
RcLockCas(t) ==
    /\ At(t, "weak_lock", "cas")
    /\ Access
    /\ IF compare_exchange_succeeds(self.refs, loaded[t])
       THEN /\ self' = [self EXCEPT !.refs = fetch_add_strong(@)]
            /\ holds' = [holds EXCEPT ![t].strong = @ + 1]
            /\ lockResult' = [lockResult EXCEPT ![t] = "true"]
            /\ Return(t)
       ELSE IF strong_is_zero(self.refs)
            THEN /\ lockResult' = [lockResult EXCEPT ![t] = "false"]
                 /\ Return(t)
                 /\ UNCHANGED <<self, holds>>
            ELSE /\ loaded' = [loaded EXCEPT ![t] = self.refs]
                 /\ UNCHANGED <<self, holds, lockResult, pc>>
    /\ UNCHANGED <<rcFrame, deleted, calls, nullCallbacks, teardowns,
                   weakUsed>>

RcNext ==
    \E t \in Threads :
        \/ RcRefLoad(t)
        \/ RcRefAdd(t)
        \/ RcUnrefLoad(t)
        \/ RcUnrefSub(t)
        \/ RcUnrefWeakRef(t)
        \/ RcUnrefFinalize(t)
        \/ RcUnrefFree(t)
        \/ RcUnrefClear(t)
        \/ RcWeakRef(t)
        \/ RcWeakUnrefLoad(t)
        \/ RcWeakUnrefSub(t)
        \/ RcDelete(t)
        \/ RcLockLoad(t)
        \/ RcLockCas(t)

SpecRC == RcInit /\ [][RcNext]_vars

\* the steps of a call of thread t that has started and not returned
RcRuns(t) ==
    /\ pc[t] # Idle
    /\ \/ RcRefAdd(t)
       \/ RcUnrefSub(t)
       \/ RcUnrefWeakRef(t)
       \/ RcUnrefFinalize(t)
       \/ RcUnrefFree(t)
       \/ RcUnrefClear(t)
       \/ RcWeakUnrefLoad(t)
       \/ RcWeakUnrefSub(t)
       \/ RcDelete(t)
       \/ RcLockCas(t)

\* SpecRC with threads that are scheduled: a call that has started takes its
\* next step
SpecRCFair == SpecRC /\ \A t \in Threads : WF_vars(RcRuns(t))

(***************************************************************************)
(* Properties of SpecRC.                                                   *)
(***************************************************************************)
AllIdle == \A t \in Threads : pc[t] = Idle

\* the thread is between the decrement that zeroed the strong count and the
\* end of the clearing of the maps
InTeardown(t) ==
    /\ pc[t].fn = "unref"
    /\ pc[t].at \in {"weak_ref", "finalize", "free", "weak_unref"}

\* C1: with threads calling Object_ref and Object_unref on references they
\* hold, exactly one Object_unref observes the strong count going from 1 to 0
\* and tears down, and each class's finalize and free callbacks are invoked
\* once in total
C1_SingleTeardown ==
    /\ teardowns <= 1
    /\ \A n \in 1..Len(calls) : Occurrences(calls, calls[n]) = 1
    /\ ~weakUsed =>
           /\ StrongHeld > 0 => teardowns = 0 /\ calls = << >>
           /\ StrongHeld = 0 => teardowns = 1
           /\ (StrongHeld = 0 /\ AllIdle) =>
                  \A k \in 1..Len(attachOrder) :
                      /\ Settled("finalize", attachOrder[k])
                      /\ Settled("free", attachOrder[k])

\* a thread that was handed its reference by another one runs the teardown
C1_Witness ==
    /\ ~weakUsed
    /\ \E t \in Threads \ {1} : At(t, "unref", "free")
    /\ \E n \in 1..Len(calls) : calls[n][1] = "finalize"

\* C2: the shell is not deallocated while the thread whose Object_unref zeroed
\* the strong count is still in the teardown
C2_ShellOutlivesTeardown ==
    \A t \in Threads : InTeardown(t) => deleted = 0

\* C3: the shell is deallocated at most once, and never while a holder still
\* has an unreleased strong or weak reference
C3_ShellFreedOnce ==
    /\ deleted <= 1
    /\ deleted > 0 => StrongHeld = 0 /\ WeakHeld = 0

\* the strong count has reached zero while a weak reference is held
StrongGone == teardowns > 0 /\ WeakHeld > 0

\* the Object_unref that released the last strong reference has returned and a
\* weak reference is still held
Zombie == StrongGone /\ \A t \in Threads : pc[t].fn # "unref"

C4_ZombieState ==
    /\ StrongGone =>
           /\ deleted = 0
           /\ Object_refs_get(self) = 0
           /\ StrongHeld = 0
    /\ (teardowns > 0 /\ AllIdle /\ StrongHeld = 0 /\ WeakHeld = 0) =>
           deleted >= 1

C4_ZombieStep ==
    /\ StrongGone =>
           \A t \in Threads :
               lockResult'[t] # lockResult[t] => lockResult'[t] = "false"
    /\ Zombie =>
           /\ Object_refs_get(self') = 0
           /\ ~Zombie' =>
                  /\ WeakHeld' = 0
                  /\ \E t \in Threads :
                         pc'[t] = [pc[t] EXCEPT !.at = "delete"]

C5_LockState ==
    teardowns > 0 => StrongHeld = 0

C5_LockStep ==
    /\ deleted' = 0 =>
           (Object_refs_get(self) = 0 => Object_refs_get(self') = 0)
    /\ \A t \in Threads :
           lockResult'[t] # lockResult[t] =>
               /\ lockResult'[t] = "true" =>
                      /\ Object_refs_get(self) > 0
                      /\ Object_refs_get(self') = Object_refs_get(self) + 1
                      /\ holds'[t].strong = holds[t].strong + 1
                      /\ teardowns' = 0
               /\ lockResult'[t] = "false" =>
                      /\ Object_refs_get(self) = 0
                      /\ self' = self
                      /\ teardowns > 0

\* C5: Object_weak_lock returns true only together with an increment of a
\* strong count that was > 0, never takes the strong count from 0 to 1, and
\* returns false only when the teardown has started; no teardown starts while
\* a reference obtained by a lock is still held
C5_WeakLockAtomic == []C5_LockState /\ [][C5_LockStep]_vars

\* a lock that raced with the release of the other strong reference succeeded,
\* and the locking thread, now the last owner, runs the teardown
C5_Witness ==
    \E t \in Threads :
        /\ lockResult[t] = "true"
        /\ InTeardown(t)
        /\ \E u \in Threads \ {t} : lockResult[u] = "false"

\* no thread holds a strong or a weak reference
NoneHeld == StrongHeld = 0 /\ WeakHeld = 0

Deallocated == deleted >= 1

\* the shell is deleted only once the teardown has run
C23_DeallocatedAfterTeardown ==
    Deallocated => teardowns = 1 /\ \A t \in Threads : ~InTeardown(t)

\* once the threads have released every reference, the shell gets deleted
C23_ReleasedLeadsToDeallocated == NoneHeld ~> Deallocated

\* C23: if every thread eventually releases every strong and weak reference
\* it holds, the handle eventually reaches Deallocated, after the teardown has
\* run once: no balanced sequence of reference calls leaves the shell
\* allocated forever with both counts at zero
C23_ReleaseDeallocates ==
    []C23_DeallocatedAfterTeardown /\ C23_ReleasedLeadsToDeallocated

(***************************************************************************)
(* The Object with removal: Object_class_remove and Object_method_remove   *)
(* are declared in Object.h; their definitions, and the record of the      *)
(* overrides each class pushed that they work on, follow spec.md 3, 4.2    *)
(* and 4.3.  overrides[k] lists the <<dispatcher, method>> pairs pushed    *)
(* while classes[k] was the top class.                                     *)
(***************************************************************************)
Object_create_removable ==
    [f \in DOMAIN Object_create \cup {"overrides"} |->
        IF f = "overrides" THEN << >> ELSE Object_create[f]]

\* attach: Object_class_push, and an empty overrides list for a new class
Object_class_push_recording(o, cls, data) ==
    LET o1 == Object_class_push(o, cls, data)
    IN IF Len(o1.classes) = Len(o.classes) THEN o1
       ELSE [o1 EXCEPT !.overrides = Append(@, << >>)]

\* pushOverride: Object_method_push, recorded in the top class
Object_method_push_recording(o, dispatcher, method) ==
    LET o1 == Object_method_push(o, dispatcher, method)
    IN IF Len(o.classes) = 0 THEN o1
       ELSE [o1 EXCEPT !.overrides[Len(o.classes)] =
                           Append(@, <<dispatcher, method>>)]

\* revert one override: the dispatcher gets the override's supermethod back,
\* or loses its entry if there is none
RevertOverride(o, ov) ==
    LET prior == FlatMap_get(o.supermethods, ov[2])
    IN [o EXCEPT !.methods = IF prior = NotFound
                             THEN FlatMap_erase(@, ov[1], "shift")
                             ELSE FlatMap_insert(@, ov[1], prior)]

\* revert the overrides of a class, the most recently pushed first
RECURSIVE RevertOverrides(_, _)
RevertOverrides(o, ovs) ==
    IF ovs = << >> THEN o
    ELSE RevertOverrides(RevertOverride(o, ovs[Len(ovs)]),
                         SubSeq(ovs, 1, Len(ovs) - 1))

\* remove the top class: (free callback,) revert its overrides, erase its data
Object_class_remove_top(o) ==
    LET n == Len(o.classes)
        o1 == RevertOverrides(o, o.overrides[n])
    IN [o1 EXCEPT !.datas = FlatMap_erase(@, o.classes[n], "shift"),
                  !.classes = SubSeq(@, 1, n - 1),
                  !.overrides = SubSeq(@, 1, n - 1)]

RECURSIVE Object_class_remove_down_to(_, _)
Object_class_remove_down_to(o, p) ==
    IF Len(o.classes) < p THEN o
    ELSE Object_class_remove_down_to(Object_class_remove_top(o), p)

\* the position of cls found by the scan from the most recently attached end
\* (0 when absent)
ReverseScan(q, cls) ==
    IF \E n \in 1..Len(q) : q[n] = cls
    THEN CHOOSE n \in 1..Len(q) :
             q[n] = cls /\ \A j \in (n + 1)..Len(q) : q[j] # cls
    ELSE 0

Object_class_remove(o, cls) ==
    LET p == ReverseScan(o.classes, cls)
    IN IF p = 0 THEN o ELSE Object_class_remove_down_to(o, p)

\* the free callbacks Object_class_remove invokes, in order
Object_class_remove_calls(o, cls) ==
    LET p == ReverseScan(o.classes, cls)
        n == Len(o.classes)
    IN IF p = 0 THEN << >>
       ELSE [k \in 1..(n - p + 1) |-> <<"free", o.classes[n - k + 1]>>]

\* the chain of a dispatcher from the method m down, by supermethods links
RECURSIVE ChainFrom(_, _, _)
ChainFrom(o, m, steps) ==
    IF m = NotFound \/ steps = 0 THEN << >>
    ELSE <<m>> \o ChainFrom(o, FlatMap_get(o.supermethods, m), steps - 1)

RECURSIVE EraseAll(_, _)
EraseAll(m, ks) ==
    IF ks = << >> THEN m
    ELSE EraseAll(FlatMap_erase(m, Head(ks), "shift"), Tail(ks))

Object_method_remove(o, dispatcher, method) ==
    LET chain == ChainFrom(o, FlatMap_get(o.methods, dispatcher), MaxMethods)
        k == Position(chain, method)
    IN IF k = 0 THEN o
       ELSE LET links == SubSeq(chain, 1, k)
                prior == FlatMap_get(o.supermethods, method)
                Kept(ov) == ~(ov[1] = dispatcher /\ ov[2] \in Range(links))
            IN [o EXCEPT
                 !.supermethods = EraseAll(@, links),
                 !.overrides = [c \in DOMAIN @ |-> SelectSeq(@[c], Kept)],
                 !.methods = IF prior = NotFound
                             THEN FlatMap_erase(@, dispatcher, "shift")
                             ELSE FlatMap_insert(@, dispatcher, prior)]

(***************************************************************************)
(* SpecRm: one live Object on which classes are attached and removed and   *)
(* methods are pushed and removed.  A method is pushed only while the      *)
(* Object holds no trace of it (a method function is pushed once), and the *)
(* method functions being alike, a push takes the first such method.       *)
(* calls holds the callbacks of the last call; lastCall tells whether it   *)
(* was Object_method_remove and how many methods that removed.             *)
(***************************************************************************)
Removal(fn, removed) ==
    [fn |-> fn, null |-> FALSE, ret |-> Returned("void", 0),
     removed |-> removed]

\* the Object has no entry that mentions the method
Unknown(o, method) ==
    /\ \A d \in Dispatchers : FlatMap_get(o.methods, d) # method
    /\ FlatMap_find(o.supermethods, method) = NotFound
    /\ \A m \in Methods : FlatMap_get(o.supermethods, m) # method

RmInit ==
    /\ MapIdle
    /\ RcIdle
    /\ ExtIdle
    /\ self = Object_create_removable
    /\ deleted = 0
    /\ td = NoTeardown
    /\ calls = << >>
    /\ nullCallbacks = {}
    /\ held = [strong |-> 1, weak |-> 0, peak |-> 1]
    /\ teardowns = 0
    /\ repushed = {}
    /\ attachOrder = << >>
    /\ firstData = [c \in Classes |-> NotFound]
    /\ pushed = [d \in Dispatchers |-> << >>]

rmFrame ==
    <<mapVars, extVars, deleted, td, nullCallbacks, held, teardowns, repushed,
      threadVars>>

RmAttach(cls, data) ==
    /\ self' = Object_class_push_recording(self, cls, data)
    /\ attachOrder' = IF cls \in Range(attachOrder) THEN attachOrder
                      ELSE Append(attachOrder, cls)
    /\ firstData' = IF cls \in Range(attachOrder) THEN firstData
                    ELSE [firstData EXCEPT ![cls] = data]
    /\ calls' = << >>
    /\ lastCall' = NoCall
    /\ UNCHANGED <<rmFrame, pushed>>

RmClassPush ==
    \E cls \in Classes, data \in Datas : RmAttach(cls, data)

RmPush(dispatcher, method) ==
    /\ Unknown(self, method)
    /\ \A m \in Methods : m < method => ~Unknown(self, m)
    /\ Object_method_push_asserts(self, dispatcher, method)
    /\ self' = Object_method_push_recording(self, dispatcher, method)
    /\ pushed' = [pushed EXCEPT ![dispatcher] = Append(@, method)]
    /\ calls' = << >>
    /\ lastCall' = NoCall
    /\ UNCHANGED <<rmFrame, attachOrder, firstData>>

RmMethodPush ==
    \E dispatcher \in Dispatchers, method \in Methods :
        /\ SumLen(pushed, Dispatchers) < MaxObservedPushes
        /\ RmPush(dispatcher, method)

\* the overrides recorded by the classes at positions p and above
OverridesFrom(o, p) ==
    UNION {Range(o.overrides[k]) : k \in p..Len(o.overrides)}

RmClassRemove ==
    \E cls \in Classes :
        LET p == Position(attachOrder, cls)
            frees == Object_class_remove_calls(self, cls)
        IN /\ self' = Object_class_remove(self, cls)
           /\ calls' = frees
           /\ attachOrder' = IF p = 0 THEN attachOrder
                             ELSE SubSeq(attachOrder, 1, p - 1)
           /\ firstData' =
                  [c \in Classes |->
                      IF p # 0 /\ Position(attachOrder, c) >= p
                      THEN NotFound ELSE firstData[c]]
           /\ pushed' =
                  [d \in Dispatchers |->
                      LET Stays(m) ==
                              p = 0 \/ <<d, m>> \notin OverridesFrom(self, p)
                      IN SelectSeq(pushed[d], Stays)]
           /\ lastCall' = NoCall
           /\ UNCHANGED rmFrame

RmMethodRemove ==
    \E dispatcher \in Dispatchers, method \in Methods :
        LET k == Position(pushed[dispatcher], method)
        IN /\ self' = Object_method_remove(self, dispatcher, method)
           /\ pushed' = IF k = 0 THEN pushed
                        ELSE [pushed EXCEPT ![dispatcher] =
                                 SubSeq(@, 1, k - 1)]
           /\ lastCall' =
                  Removal("Object_method_remove",
                          IF k = 0 THEN 0
                          ELSE Len(pushed[dispatcher]) - k + 1)
           /\ calls' = << >>
           /\ UNCHANGED <<rmFrame, attachOrder, firstData>>

RmNext == RmClassPush \/ RmMethodPush \/ RmClassRemove \/ RmMethodRemove

SpecRm == RmInit /\ [][RmNext]_vars

(***************************************************************************)
(* SpecMr: as SpecRm, with longer override chains on fewer classes, whose  *)
(* data pointers are NULL.                                                 *)
(***************************************************************************)
MrClassPush ==
    \E cls \in Classes :
        /\ Len(attachOrder) < MaxObservedClasses
        /\ RmAttach(cls, NULL)

MrMethodPush ==
    \E dispatcher \in Dispatchers, method \in Methods :
        RmPush(dispatcher, method)

MrNext == MrClassPush \/ MrMethodPush \/ RmClassRemove \/ RmMethodRemove

SpecMr == RmInit /\ [][MrNext]_vars

\* the method a dispatcher resolves to according to the pushes and removals
Resolved(chain) == IF chain = << >> THEN NULL ELSE chain[Len(chain)]

\* the class list, the data and the resolution of every dispatcher are what
\* the pushes and removals made so far leave
RmMatches ==
    /\ self.classes = attachOrder
    /\ Len(self.overrides) = Len(self.classes)
    /\ \A cls \in Classes :
           IF cls \in Range(attachOrder)
           THEN /\ Object_class_check(self, cls)
                /\ Object_class_data(self, cls) = firstData[cls]
           ELSE ~Object_class_check(self, cls)
    /\ \A d \in Dispatchers : Object_method_get(self, d) = Resolved(pushed[d])

PxInit ==
    /\ MapIdle
    /\ RcIdle
    /\ self = Object_create
    /\ deleted = 0
    /\ td = NoTeardown
    /\ calls = << >>
    /\ nullCallbacks = {<<"finalize", ObjectProxies_class>>}
    /\ held = [strong |-> 1, weak |-> 0, peak |-> 1]
    /\ teardowns = 0
    /\ repushed = {}
    /\ attachOrder = << >>
    /\ firstData = [c \in Classes |-> NotFound]
    /\ pushed = [d \in Dispatchers |-> << >>]
    /\ proxies = NoProxies
    /\ pxLog = NoDestructions
    /\ weakRef = NoWeakRef

pxFrame ==
    <<mapVars, deleted, nullCallbacks, repushed, firstData, pushed,
      threadVars, weakRef>>

\* the proxies in the list of the ObjectProxies data
Listed(data) == {data.proxies[n].proxy : n \in 1..Len(data.proxies)}

\* what `new` returns: an address no listed proxy has
IsFresh(proxy) ==
    /\ proxy \notin Listed(proxies)
    /\ \A q \in Proxies : q < proxy => q \in Listed(proxies)

Alive == deleted = 0 /\ held.strong > 0 /\ td.phase = "none"

PxOf ==
    \E type \in Types, fresh \in Proxies :
        LET r == ObjectProxy_of(self, proxies, type, fresh)
        IN /\ Alive
           /\ IsFresh(fresh)
           /\ self' = r.object
           /\ proxies' = r.data
           /\ pxLog' = IF r.proxy = fresh
                       THEN [pxLog EXCEPT !.registered = @ \cup {fresh}]
                       ELSE pxLog
           /\ attachOrder' = self'.classes
           /\ lastCall' = [fn |-> "ObjectProxy::of", null |-> FALSE,
                           ret |-> Returned("pointer", r.proxy)]
           /\ UNCHANGED <<pxFrame, td, calls, held, teardowns>>

\* ObjectProxies_add called for a proxy of another language environment
PxAdd ==
    \E proxy \in Proxies, type \in Types \cup {NULL},
       destructor \in BOOLEAN :
        /\ Alive
        /\ ObjectProxies_has(self)
        /\ IsFresh(proxy)
        /\ proxies' = ObjectProxies_add(proxies, proxy, type, destructor)
        /\ pxLog' = IF destructor
                    THEN [pxLog EXCEPT !.registered = @ \cup {proxy}]
                    ELSE pxLog
        /\ lastCall' = NoCall
        /\ UNCHANGED <<pxFrame, self, td, calls, held, teardowns,
                       attachOrder>>

PxRemove ==
    \E proxy \in Proxies :
        /\ Alive
        /\ ObjectProxies_has(self)
        /\ proxies' = ObjectProxies_remove(proxies, proxy)
        /\ pxLog' = [pxLog EXCEPT !.registered = @ \ {proxy}]
        /\ lastCall' = NoCall
        /\ UNCHANGED <<pxFrame, self, td, calls, held, teardowns,
                       attachOrder>>

\* ObjectProxies_bound_set called by the environment the Object is bound to
PxBoundSet ==
    \E type \in Types \cup {NULL}, destructor \in BOOLEAN :
        /\ Alive
        /\ ObjectProxies_has(self)
        /\ ObjectProxies_bound_get(proxies) = NULL
        /\ proxies' = ObjectProxies_bound_set(proxies, BoundProxy, type,
                                              destructor)
        /\ lastCall' = NoCall
        /\ UNCHANGED <<pxFrame, self, td, calls, held, teardowns,
                       attachOrder, pxLog>>

\* a Ref is constructed from a proxy or copied
PxRefObtain ==
    /\ Alive
    /\ Listed(proxies) # {} \/ ObjectProxies_bound_get(proxies) # NULL
    /\ held.strong < MaxRefs + 1
    /\ self' = Ref_obtain(self)
    /\ held' = [held EXCEPT !.strong = @ + 1,
                            !.peak = IF held.strong + 1 > @
                                     THEN held.strong + 1 ELSE @]
    /\ lastCall' = NoCall
    /\ UNCHANGED <<pxFrame, td, calls, teardowns, attachOrder, proxies,
                   pxLog>>

\* a Ref is destroyed, or the creator calls Object_unref
PxRefRelease ==
    /\ Alive
    /\ self' = Ref_release(self)
    /\ td' = IF Object_unref_tears_down(self)
             THEN Object_unref_begin(self) ELSE td
    /\ teardowns' = IF Object_unref_tears_down(self)
                    THEN teardowns + 1 ELSE teardowns
    /\ held' = [held EXCEPT !.strong = @ - 1]
    /\ lastCall' = NoCall
    /\ UNCHANGED <<pxFrame, calls, attachOrder, proxies, pxLog>>

\* the finalize loop: the ObjectProxies class has no finalize function
PxFinalizeStep ==
    /\ td.phase = "finalize"
    /\ calls' = calls \o Object_unref_finalize_call(self, td, TRUE)
    /\ td' = Object_unref_finalize_next(td)
    /\ lastCall' = NoCall
    /\ UNCHANGED <<pxFrame, self, held, teardowns, attachOrder, proxies,
                   pxLog>>

\* ObjectProxies free block, one iteration: take the last entry, pop_back(),
\* call its destructor if it has one; the destructor may call
\* ObjectProxies_remove(self, q) before it returns
PxDestroyStep ==
    /\ td.phase = "free"
    /\ ObjectProxies_has(self)
    /\ Len(self.classes) > 0
    /\ Len(proxies.proxies) > 0
    /\ LET p == ObjectProxies_free_back(proxies)
           popped == ObjectProxies_free_pop(proxies)
       IN IF p.destructor
          THEN \E q \in Proxies \cup {NULL} :
                  /\ proxies' = IF q = NULL THEN popped
                                ELSE ObjectProxies_remove(popped, q)
                  /\ pxLog' = [pxLog EXCEPT
                                  !.destructed = Append(@, p.proxy),
                                  !.registered =
                                      IF q \in Listed(popped)
                                      THEN @ \ {q} ELSE @]
          ELSE /\ proxies' = popped
               /\ pxLog' = pxLog
    /\ lastCall' = NoCall
    /\ UNCHANGED <<pxFrame, self, td, calls, held, teardowns, attachOrder>>

\* the end of the free block (the destructor of the bound proxy, whose
\* ~ObjectProxy clears the bound destructor; delete data) and pop_back() of
\* the class list
PxFreeFinish ==
    /\ td.phase = "free"
    /\ Len(self.classes) > 0
    /\ Len(proxies.proxies) = 0
    /\ LET bp == proxies.boundProxy
       IN IF bp.proxy # NULL /\ bp.destructor
          THEN /\ pxLog' = [pxLog EXCEPT !.destructed = Append(@, bp.proxy)]
               /\ proxies' = ObjectProxies_bound_set(proxies, bp.proxy,
                                                     bp.type, FALSE)
          ELSE UNCHANGED <<proxies, pxLog>>
    /\ calls' = calls \o Object_unref_free_call(self, FALSE)
    /\ self' = Object_unref_free_pop(self)
    /\ lastCall' = NoCall
    /\ UNCHANGED <<pxFrame, td, held, teardowns, attachOrder>>

PxUnrefFinish ==
    /\ ObjUnrefFinish
    /\ lastCall = NoCall

PxNext ==
    \/ PxOf
    \/ PxAdd
    \/ PxRemove
    \/ PxBoundSet
    \/ PxRefObtain
    \/ PxRefRelease
    \/ PxFinalizeStep
    \/ PxDestroyStep
    \/ PxFreeFinish
    \/ PxUnrefFinish

SpecPx == PxInit /\ [][PxNext]_vars

RegisteredLeft == pxLog.registered \cap Proxies

Destructed(proxy) == Occurrences(pxLog.destructed, proxy)

\* C26: creating or looking up a non-owning proxy with ObjectProxy::of leaves
\* the strong count of the Object unchanged, and the strong count is the
\* reference of the creator plus one for every live Ref: constructing or
\* copying a Ref adds one, destroying a Ref takes one away, so after the Refs
\* are destroyed the count is back at its earlier value
C26_CountIsHolders ==
    deleted = 0 => Object_refs_get(self) = held.strong

C26_OfKeepsCount ==
    lastCall'.fn = "ObjectProxy::of" =>
        /\ Object_refs_get(self') = Object_refs_get(self)
        /\ lastCall'.ret.value \in Listed(proxies') \cup {BoundProxy}

C27_DestructedOnce ==
    /\ \A p \in Proxies : Destructed(p) <= 1
    /\ \A p \in Proxies : Destructed(p) = 1 => p \in pxLog.registered
    /\ TeardownComplete =>
           \A p \in pxLog.registered : Destructed(p) = 1

C27_DestructsRegistered ==
    \A p \in Proxies :
        Occurrences(pxLog'.destructed, p) > Destructed(p) =>
            p \in pxLog.registered

C27_DestructorsOfRegistered ==
    []C27_DestructedOnce /\ [][C27_DestructsRegistered]_vars

C27_Witness ==
    /\ TeardownComplete
    /\ Cardinality(pxLog.registered) = 1
    /\ Len(pxLog.destructed) = 1
    /\ proxies.proxiesByType # NoProxies.proxiesByType

(***************************************************************************)
(* The Weak class and WeakRef (src/examples/WeakRef.cpp), on the reference *)
(* functions they are written for: Object_obtain and Object_release with   *)
(* one count (src/src/Object.cpp lines 43-79).  weakRef is the record the  *)
(* Weak class keeps; deletes counts `delete weakRef`, stale tells that a   *)
(* deleted record was written.  WeakRef is not thread-safe: one thread.    *)
(***************************************************************************)
Weak_class == 9
Weak_data == 2
\* the address of the Object, as weakRef->object holds it
TheObject == 1

\* lines 43-51
Object_obtain(o) ==
    IF o.refs.strong = 0 THEN o ELSE [o EXCEPT !.refs.strong = @ + 1]

\* lines 54-62: the guarded decrement
Object_release_enter(o) ==
    IF o.refs.strong = 0 THEN o ELSE [o EXCEPT !.refs.strong = @ - 1]

Object_release_tears_down(o) == o.refs.strong = 1

\* DEFINE_CLASS(Weak): Weak_specialize returns if the class is there, else
\* makes the record and pushes the class
Weak_specialize(o, w) ==
    IF Object_class_check(o, Weak_class)
    THEN [object |-> o, weakRef |-> w]
    ELSE [object |-> Object_class_push(o, Weak_class, Weak_data),
          weakRef |-> [w EXCEPT !.allocated = TRUE, !.object = TheObject,
                                !.refs = 0]]

\* DEFINE_CLASS(Weak) free block
Weak_free(w) ==
    IF w.refs # 0 THEN [w EXCEPT !.object = NULL]
    ELSE [w EXCEPT !.object = NULL, !.allocated = FALSE, !.deletes = @ + 1]

\* ++weakRef->refs on the record that datas names; a write to a deleted
\* record is recorded in stale
WeakRef_obtain(o, w) ==
    LET s == Weak_specialize(o, w)
    IN IF s.weakRef.allocated
       THEN [s EXCEPT !.weakRef.refs = @ + 1]
       ELSE [s EXCEPT !.weakRef.stale = TRUE]

\* variant: the record is deleted as soon as the count drops to zero
WeakRef_release_eager(w) ==
    IF w.refs - 1 # 0 THEN [w EXCEPT !.refs = @ - 1]
    ELSE [w EXCEPT !.refs = 0, !.allocated = FALSE, !.deletes = @ + 1]

WeakRef_release(w) ==
    IF w.refs - 1 # 0 THEN [w EXCEPT !.refs = @ - 1]
    ELSE IF w.object # NULL THEN [w EXCEPT !.refs = 0]
    ELSE [w EXCEPT !.refs = 0, !.allocated = FALSE, !.deletes = @ + 1]

WeakRef_get(o, w) ==
    IF w.object = NULL THEN [object |-> o, ret |-> NULL]
    ELSE [object |-> Object_obtain(o), ret |-> w.object]

\* the class whose callback the teardown is about to run, NULL if none
CallbackOf(o, t) ==
    IF t.phase = "finalize" THEN o.classes[t.it]
    ELSE IF t.phase = "free" /\ Len(o.classes) > 0
    THEN o.classes[Len(o.classes)]
    ELSE NULL

\* code of the program runs: the holder of a reference outside a teardown,
\* or the finalize or free callback of a class other than Weak
CanCall ==
    \/ td.phase = "none" /\ (deleted = 0 => held.strong > 0)
    \/ CallbackOf(self, td) \notin {NULL, Weak_class}

WkInit ==
    /\ MapIdle
    /\ RcIdle
    /\ self = Object_create
    /\ deleted = 0
    /\ td = NoTeardown
    /\ calls = << >>
    /\ nullCallbacks = {<<"finalize", Weak_class>>}
    /\ held = [strong |-> 1, weak |-> 0, peak |-> 1]
    /\ teardowns = 0
    /\ repushed = {}
    /\ attachOrder = << >>
    /\ firstData = [c \in Classes |-> NotFound]
    /\ pushed = [d \in Dispatchers |-> << >>]
    /\ proxies = NoProxies
    /\ pxLog = NoDestructions
    /\ weakRef = NoWeakRef

wkFrame ==
    <<mapVars, repushed, firstData, pushed, threadVars, proxies, pxLog,
      nullCallbacks>>

WkCalled(fn, ret) ==
    [fn |-> fn, null |-> FALSE, ret |-> Returned("pointer", ret)]

WkClassPush ==
    \E cls \in 1..MaxObservedClasses :
        /\ deleted = 0 /\ td.phase = "none"
        /\ ~Object_class_check(self, cls)
        /\ self' = Object_class_push(self, cls, NULL)
        /\ attachOrder' = self'.classes
        /\ lastCall' = NoCall
        /\ UNCHANGED <<wkFrame, deleted, td, calls, held, teardowns, weakRef>>

WkObjectObtain ==
    /\ deleted = 0 /\ td.phase = "none"
    /\ held.strong < MaxRefs
    /\ self' = Object_obtain(self)
    /\ held' = [held EXCEPT !.strong = @ + 1]
    /\ lastCall' = NoCall
    /\ UNCHANGED <<wkFrame, deleted, td, calls, teardowns, weakRef,
                   attachOrder>>

WkObjectRelease ==
    /\ deleted = 0 /\ td.phase = "none"
    /\ held.strong > 0
    /\ self' = Object_release_enter(self)
    /\ td' = IF Object_release_tears_down(self)
             THEN Object_unref_begin(self) ELSE td
    /\ teardowns' = IF Object_release_tears_down(self)
                    THEN teardowns + 1 ELSE teardowns
    /\ held' = [held EXCEPT !.strong = @ - 1]
    /\ lastCall' = NoCall
    /\ UNCHANGED <<wkFrame, deleted, calls, weakRef, attachOrder>>

\* WeakRef_obtain(object), by a holder or from a callback; from a callback
\* only while the Weak class is on the class list: specializing would push
\* onto the list the teardown is walking, and Object_class_check for a class
\* that was freed already is undefined for callers (Object.cpp line 75)
WkObtain ==
    LET r == WeakRef_obtain(self, weakRef)
    IN /\ deleted = 0
       /\ CanCall
       /\ td.phase # "none" => Weak_class \in Range(self.classes)
       /\ held.weak < MaxWeakHandles
       /\ self' = r.object
       /\ weakRef' = r.weakRef
       /\ held' = IF r.weakRef.allocated
                  THEN [held EXCEPT !.weak = @ + 1] ELSE held
       /\ attachOrder' = self'.classes
       /\ lastCall' = WkCalled("WeakRef_obtain", Weak_data)
       /\ UNCHANGED <<wkFrame, deleted, td, calls, teardowns>>

\* WeakRef_release(weakRef) by the holder of a weak reference
WkRelease ==
    /\ CanCall
    /\ held.weak > 0
    /\ weakRef' = WeakRef_release(weakRef)
    /\ held' = [held EXCEPT !.weak = @ - 1]
    /\ lastCall' = WkCalled("WeakRef_release", NULL)
    /\ UNCHANGED <<wkFrame, self, deleted, td, calls, teardowns,
                   attachOrder>>

\* WeakRef_get(weakRef) by the holder of a weak reference; a result that
\* came with a reference is held until WkObjectRelease
WkGet ==
    LET r == WeakRef_get(self, weakRef)
    IN /\ CanCall
       /\ held.weak > 0
       /\ held.strong < MaxRefs
       /\ self' = r.object
       /\ held' = IF Object_refs_get(r.object) # Object_refs_get(self)
                  THEN [held EXCEPT !.strong = @ + 1] ELSE held
       /\ lastCall' = WkCalled("WeakRef_get", r.ret)
       /\ UNCHANGED <<wkFrame, deleted, td, calls, teardowns, weakRef,
                      attachOrder>>

\* lines 64-68, one iteration: Weak has no finalize function
WkFinalizeStep ==
    /\ td.phase = "finalize"
    /\ calls' = calls \o Object_unref_finalize_call(
                              self, td, self.classes[td.it] = Weak_class)
    /\ td' = Object_unref_finalize_next(td)
    /\ lastCall' = NoCall
    /\ UNCHANGED <<wkFrame, self, deleted, held, teardowns, weakRef,
                   attachOrder>>

\* lines 70-76, one iteration: the free callback, then pop_back()
WkFreeStep ==
    /\ td.phase = "free"
    /\ Len(self.classes) > 0
    /\ calls' = calls \o Object_unref_free_call(self, FALSE)
    /\ weakRef' = IF CallbackOf(self, td) = Weak_class
                  THEN Weak_free(weakRef) ELSE weakRef
    /\ self' = Object_unref_free_pop(self)
    /\ lastCall' = NoCall
    /\ UNCHANGED <<wkFrame, deleted, td, held, teardowns, attachOrder>>

\* line 78: delete self
WkDelete ==
    /\ td.phase = "free"
    /\ Len(self.classes) = 0
    /\ deleted' = deleted + 1
    /\ td' = NoTeardown
    /\ lastCall' = NoCall
    /\ UNCHANGED <<wkFrame, self, calls, held, teardowns, weakRef,
                   attachOrder>>

WkNext ==
    \/ WkClassPush
    \/ WkObjectObtain
    \/ WkObjectRelease
    \/ WkObtain
    \/ WkRelease
    \/ WkGet
    \/ WkFinalizeStep
    \/ WkFreeStep
    \/ WkDelete

SpecWk == WkInit /\ [][WkNext]_vars

\* C28: for the weak reference of the Weak class, WeakRef_get returns NULL
\* on every call made after the Object has been freed, and otherwise returns
\* the Object with its strong count incremented by exactly one; obtaining or
\* releasing weak references never changes the strong count of the Object
C28_GetStep ==
    lastCall'.fn = "WeakRef_get" =>
        IF deleted = 1
        THEN lastCall'.ret.value = NULL
        ELSE lastCall'.ret.value # NULL =>
                 /\ lastCall'.ret.value = TheObject
                 /\ Object_refs_get(self') = Object_refs_get(self) + 1

C28_GetAlive ==
    (lastCall'.fn = "WeakRef_get" /\ teardowns = 0) =>
        lastCall'.ret.value = TheObject

C28_WeakKeepsCount ==
    lastCall'.fn \in {"WeakRef_obtain", "WeakRef_release"} =>
        Object_refs_get(self') = Object_refs_get(self)

C28_WeakRefGet ==
    [][C28_GetStep /\ C28_GetAlive /\ C28_WeakKeepsCount]_vars

\* C33: Object_method_push(D, M) on a dispatcher D with no entry sets
\* Object_method_get(D) to M and records no supermethod for M; every
\* Object_method_push(D, M) leaves Object_method_get(D') as it was for every
\* other dispatcher D', and leaves the class list and the data pointer of
\* every class as they were
C33_PushStep ==
    \A d \in Dispatchers :
        pushed'[d] # pushed[d] =>
            LET m == pushed'[d][Len(pushed'[d])]
            IN /\ Object_method_get(self', d) = m
               /\ Object_method_get(self, d) = NULL =>
                      /\ self'.supermethods = self.supermethods
                      /\ HasSupermethod(self', m) = HasSupermethod(self, m)
               /\ \A e \in Dispatchers \ {d} :
                      Object_method_get(self', e) = Object_method_get(self, e)
               /\ self'.classes = self.classes
               /\ \A cls \in Classes :
                      /\ Object_class_check(self', cls)
                             = Object_class_check(self, cls)
                      /\ Object_class_data(self', cls)
                             = Object_class_data(self, cls)

C33_PushFrame == [][C33_PushStep]_vars

\* two classes are attached, one of them with data, and each dispatcher got
\* its first method, so that no supermethod is recorded
C33_Witness ==
    /\ held.strong > 0
    /\ Len(self.classes) = 2
    /\ \E cls \in Classes : Object_class_data(self, cls) \notin {NotFound, NULL}
    /\ \A d \in Dispatchers : Len(pushed[d]) = 1
    /\ FlatMap_empty(self.supermethods)

\* the Weak class was attached to the Object at some time
WeakAttached == Weak_class \in Range(attachOrder)

\* C34: the WeakRef record of the Weak class is released exactly once, and
\* only when its weak count is zero and its Object has been freed: the free
\* callback of the Weak class releases it only if the count is zero,
\* WeakRef_release only if the count drops to zero and the Object is gone,
\* and a record with count zero whose Object is alive is kept and used
\* again by the next WeakRef_obtain
C34_RecordState ==
    /\ weakRef.deletes <= 1
    /\ ~weakRef.stale
    /\ weakRef.allocated <=> (WeakAttached /\ weakRef.deletes = 0)
    /\ weakRef.allocated => weakRef.refs = held.weak
    /\ (weakRef.allocated /\ weakRef.refs = 0) => weakRef.object = TheObject
    /\ weakRef.deletes = 1 =>
           /\ weakRef.refs = 0 /\ held.weak = 0
           /\ weakRef.object = NULL
           /\ teardowns = 1
    /\ (WeakAttached /\ deleted = 1 /\ held.weak = 0) => weakRef.deletes = 1

C34_RecordStep ==
    /\ weakRef'.deletes # weakRef.deletes =>
           /\ weakRef.allocated
           /\ weakRef'.refs = 0
           /\ weakRef'.object = NULL
           /\ Object_refs_get(self) = 0
           /\ \/ lastCall'.fn = "WeakRef_release" /\ weakRef.refs = 1
                                                  /\ weakRef.object = NULL
              \/ CallbackOf(self, td) = Weak_class /\ weakRef.refs = 0
                                                  /\ td.phase = "free"
    /\ (lastCall'.fn = "WeakRef_obtain" /\ weakRef.allocated) =>
           /\ self' = self
           /\ weakRef' = [weakRef EXCEPT !.refs = @ + 1]

C34_RecordReleasedOnce == []C34_RecordState /\ [][C34_RecordStep]_vars

\* the record outlived an Object with three classes and was released by the
\* last WeakRef_release
C34_Witness ==
    /\ weakRef.deletes = 1
    /\ deleted = 1
    /\ lastCall.fn = "WeakRef_release"
    /\ Len(attachOrder) = 3
====
